---- MODULE Spec2Model ----
(***************************************************************************)
(* A model of the three hash multimaps of PelotonHashTable:                *)
(*   HashTable_OA_KVL  open addressing, linear probing, key value lists    *)
(*   HashTable_CA_CC   closed addressing, one global collision chain       *)
(*   HashTable_CA_SCC  closed addressing, one chain per slot               *)
(* One table is constructed in Init (variable "variant" says which class)  *)
(* and every public operation of that class is one action.                 *)
(***************************************************************************)
EXTENDS Integers, Sequences, FiniteSets, TLC

(***************************************************************************)
(* Bounds of the model                                                     *)
(***************************************************************************)
\* Keys offered to an OA_KVL table.  With std::hash (the identity on uint64_t)
\* 31 and 63 share slot 31 of a 32 entry table and the probe of the second
\* wraps to slot 0; after a resize to 64 entries each has a slot of its own.
OA_Keys == {31, 63}

\* Keys offered to the closed addressing tables.  With std::hash 1 and 5 share
\* a slot of a 2 and of a 4 slot table and part in an 8 slot table; 2 never
\* shares a slot with them.
CA_Keys == {1, 2, 5}

\* The tables copy and destroy values and never look at one, so a value is
\* offered as a tag that names its key and its place among the values the key
\* holds when it is inserted.
NextValue(key, held) == 100 * key + Len(held) + 1

\* Largest number of values an OA_KVL table is made to hold at a time
MaxTotalValues == 3

\* Largest number of key value lists an OA_KVL table is made to hold at a time
MaxLists == 2

\* Largest number of entries (closed addressing) a table is made to hold
MaxEntries == 4

\* Largest array size OA_KVL is allowed to grow to (Insert is not offered once
\* a resize would exceed it)
MaxEntryCount == 64

\* Largest slot array the closed addressing tables are allowed to grow to
MaxSlotCount == 8

\* Largest size requested from the constructors
MaxRequest == 3

\* Largest number of keys the churn workload keeps in the table at a time
MaxLive == 1

\* Largest number of values the filling caller gives one key; no key value
\* list is made to hold more
MaxFill == 9

\* Largest number of values the caller that fills and drains gives its key
MaxDrain == 5

(***************************************************************************)
(* Program constants                                                       *)
(***************************************************************************)
MINIMUM_ENTRY_COUNT == 32
PAGE_SIZE == 4096
KVL_INIT_VALUE_COUNT == 4

\* enum class StatusCode
FREE == 0
DELETED == 1
INLINE_VALUE == 2
MULTIPLE_VALUES == 3

\* sizeof(HashEntry) of the instantiation that is modelled: status word, hash
\* value, an 8 byte key and a 104 byte value (FixedLenValue<104>)
SizeofHashEntry == 128

\* The lowest address malloc() returns for a KeyValueList.  The class relies
\* on every pointer comparing >= MULTIPLE_VALUES.
KVLBase == 16

\* Storage whose constructor has not run, or whose destructor has
RAW == -1

\* What is left of a Data<T> whose lifetime was broken: a constructor ran on
\* it while it held an object, a destructor ran on it while it held none, or
\* it was copy-constructed from storage that held none
BAD == -2

\* Data<T>::Init(value) on storage c: placement new, copy-construct
DataInit(c, value) ==
  IF c = RAW /\ value # RAW /\ value # BAD THEN value ELSE BAD

\* Data<T>::Fini() on storage c: the destructor
DataFini(c) == IF c = RAW \/ c = BAD THEN BAD ELSE RAW

\* The null HashEntry * of OA_KVL (entries are named by their index)
NoEntry == -1

\* ProbeForSearch()/ProbeForInsert() went once around the whole array without
\* reaching an end of probing: the loop never exits
Diverges == -2

\* nullptr of the closed addressing tables (nodes are named 1, 2, ...)
nullptr == 0

\* Width of int, the type of the literal 0x0000000000000001 that the
\* constructors shift
IntBits == 32

VARIABLES
  variant,             \* which class was instantiated
  keys,                \* the keys the caller uses
  key_hash_obj,        \* KeyHashFunc template argument
  lfc,                 \* LoadFactorCalculator template argument
  entry_list_p,        \* OA_KVL: HashEntry array, index entry_count = sentinel
  kvl,                 \* OA_KVL: the heap of KeyValueList objects, by address
  index_mask,          \* all: bit mask turning a hash into an index
  active_entry_count,  \* OA_KVL: number of valid entries
  entry_count,         \* OA_KVL: array size; CA_*: number of HashEntry nodes
  slot_count,          \* CA_*: size of the slot array
  resize_threshold,    \* all: count at which Insert() resizes first
  entry_p_list_p,      \* CA_*: slot array of node pointers
  nodes,               \* CA_*: the HashEntry nodes allocated by new, by name
  dummy_next,          \* CA_CC: dummy_entry.next_p
  inserted,            \* history: per key, the values the table should hold
  ret,                 \* the last call and what it returned
  before,              \* history: what Insert found, while the last call is
                       \* that Insert or the DeleteKey of its key after it
  fault                \* "none", or how the program died

vars == <<variant, keys, key_hash_obj, lfc, entry_list_p, kvl, index_mask,
          active_entry_count, entry_count, slot_count, resize_threshold,
          entry_p_list_p, nodes, dummy_next, inserted, ret, before, fault>>

(***************************************************************************)
(* Machine arithmetic                                                      *)
(***************************************************************************)
RECURSIVE BitAnd(_, _)
BitAnd(a, b) ==
  IF a = 0 \/ b = 0 THEN 0
  ELSE (IF a % 2 = 1 /\ b % 2 = 1 THEN 1 ELSE 0) + 2 * BitAnd(a \div 2, b \div 2)

RECURSIVE BitOr(_, _)
BitOr(a, b) ==
  IF a = 0 THEN b
  ELSE IF b = 0 THEN a
  ELSE (IF a % 2 = 1 \/ b % 2 = 1 THEN 1 ELSE 0) + 2 * BitOr(a \div 2, b \div 2)

RECURSIVE ShiftLeft(_, _)
ShiftLeft(a, n) == IF n = 0 THEN a ELSE ShiftLeft(2 * a, n - 1)

\* 64 - __builtin_clzl(x) for x > 0: the number of significant bits of x
RECURSIVE EffectiveBits(_)
EffectiveBits(x) == IF x = 0 THEN 0 ELSE 1 + EffectiveBits(x \div 2)

\* A uint64_t above 2^63 is written as the negative number its bits are in
\* two's complement (all ones: -1); BitAnd() reads such a number bit by bit
\* like any other.  INT_MIN, converted to uint64_t:
IntMin == (-ShiftLeft(1, IntBits - 2)) - ShiftLeft(1, IntBits - 2)

\* 0x0000000000000001 << effective_bits, converted to uint64_t: the values a
\* build can yield.  It is an int that is shifted.  A count below IntBits
\* shifts it as written (into the sign bit for IntBits - 1).  A count of
\* IntBits or more is undefined: the shift instruction either takes the count
\* modulo IntBits (x86) or shifts the one bit out (PowerPC, and a compiler
\* that folds the constant).
IntShiftLeftOne(effective_bits) ==
  LET shifted(n) == IF n = IntBits - 1 THEN IntMin ELSE ShiftLeft(1, n) IN
  IF effective_bits < IntBits THEN {shifted(effective_bits)}
  ELSE {shifted(effective_bits % IntBits), 0}

(***************************************************************************)
(* common.h: load factor calculators and hash functions                    *)
(***************************************************************************)
LoadFactorHalfFull(table_size) == table_size \div 2

LoadFactorThreeFourthFull(table_size) ==
  BitOr(table_size \div 2, table_size \div 4)

LoadFactorPercent(percentage, table_size) == (table_size * percentage) \div 100

ConstantZero(value) == 0

\* std::hash<uint64_t>, the default KeyHashFunc, is the identity
StdHash(value) == value

Hash(key) ==
  IF key_hash_obj = "ConstantZero" THEN ConstantZero(key) ELSE StdHash(key)

LoadFactor(table_size) ==
  IF lfc.kind = "HalfFull" THEN LoadFactorHalfFull(table_size)
  ELSE IF lfc.kind = "ThreeFourthFull" THEN LoadFactorThreeFourthFull(table_size)
  ELSE LoadFactorPercent(lfc.percentage, table_size)

(***************************************************************************)
(* HashTable_OA_KVL: entries, key value lists                              *)
(***************************************************************************)
\* The members of a HashTable_OA_KVL object (and the KeyValueList heap its
\* entries point into), as one value the private functions transform.
OATable ==
  [entry_list_p |-> entry_list_p, kvl |-> kvl, index_mask |-> index_mask,
   active_entry_count |-> active_entry_count, entry_count |-> entry_count,
   resize_threshold |-> resize_threshold]

\* Addresses malloc() hands out for KeyValueList objects: one per list the
\* table may hold and one more, which GetResized() holds for a moment.
KVLAddrs == KVLBase .. (KVLBase + MaxLists)

NumAllocated(heap) == Cardinality({a \in KVLAddrs : heap[a].capacity > 0})

\* An address that holds no KeyValueList (never allocated, or freed)
NoKVL == [size |-> 0, capacity |-> 0, data |-> <<>>]

IsAllocated(heap, a) == a \in DOMAIN heap /\ heap[a].capacity > 0

\* malloc(): the lowest free address
Malloc(heap) ==
  CHOOSE a \in KVLAddrs :
    /\ ~IsAllocated(heap, a)
    /\ \A b \in KVLAddrs : b < a => IsAllocated(heap, b)

\* KeyValueList::IsFull()
IsFull(l) == l.size = l.capacity

\* KeyValueList::GetNew(): capacity set, size and data not initialized
GetNew == [size |-> RAW, capacity |-> KVL_INIT_VALUE_COUNT,
           data |-> [i \in 1 .. KVL_INIT_VALUE_COUNT |-> RAW]]

\* KeyValueList::FillValue(index, value); data[index] is data[index + 1] here
FillValue(l, index, value) ==
  [l EXCEPT !.data[index + 1] = DataInit(l.data[index + 1], value)]

\* Faulty variant of GetResized(): the capacity grows by KVL_INIT_VALUE_COUNT
GetResizedByChunk(l) ==
  [size |-> l.size, capacity |-> l.capacity + KVL_INIT_VALUE_COUNT,
   data |-> [i \in 1 .. (l.capacity + KVL_INIT_VALUE_COUNT) |->
               IF i <= l.size THEN l.data[i] ELSE RAW]]

\* Faulty variant of GetResized(): the new list has the capacity of the old
GetResizedSameCapacity(l) ==
  [size |-> l.size, capacity |-> l.capacity,
   data |-> [i \in 1 .. l.capacity |-> IF i <= l.size THEN l.data[i] ELSE RAW]]

\* KeyValueList::GetResized(): a new list of twice the capacity holding copies
\* of the size values
GetResized(l) ==
  [size |-> l.size, capacity |-> 2 * l.capacity,
   data |-> [i \in 1 .. (2 * l.capacity) |->
               IF i <= l.size THEN DataInit(RAW, l.data[i]) ELSE RAW]]

\* Faulty variant of DeleteIndex(): the elements after index are not moved
DeleteIndexNoShift(l, index) ==
  [l EXCEPT !.size = l.size - 1, !.data[l.size] = RAW]

\* KeyValueList::DeleteIndex(index): destroy data[index], move the elements
\* after it one place ahead, size--
DeleteIndex(l, index) ==
  [l EXCEPT !.size = l.size - 1,
            !.data = [i \in 1 .. l.capacity |->
                        IF i <= index THEN l.data[i]
                        ELSE IF i < l.size
                        THEN DataInit(DataFini(l.data[i]), l.data[i + 1])
                        ELSE IF i = l.size THEN DataFini(l.data[i])
                        ELSE l.data[i]]]

\* KeyValueList::DestroyAllValues(): the destructor of data[0 .. size - 1]
DestroyAllValues(l) ==
  [l EXCEPT !.data = [i \in 1 .. l.capacity |->
                        IF i <= l.size THEN DataFini(l.data[i]) ELSE l.data[i]]]

\* What free() leaves at an address it must not be called with: one that
\* holds no list, or a list that still holds a value
BadKVL == [size |-> BAD, capacity |-> 1, data |-> <<BAD>>]

\* free(kv_p)
Free(heap, kv_p) ==
  IF /\ IsAllocated(heap, kv_p)
     /\ \A i \in 1 .. heap[kv_p].capacity : heap[kv_p].data[i] = RAW
  THEN [heap EXCEPT ![kv_p] = NoKVL]
  ELSE [heap EXCEPT ![kv_p] = BadKVL]

\* HashEntry predicates
IsFree(e) == e.status = FREE
IsDeleted(e) == e.status = DELETED
IsProbeEndForInsert(e) == e.status < INLINE_VALUE
IsValidEntry(e) == e.status >= INLINE_VALUE
IsProbeEndForSearch(e) == IsFree(e)
HasKeyValueList(e) == e.status >= MULTIPLE_VALUES

\* HashEntry::Fini(): destroy the key and, when inline, the value
Fini(e) ==
  IF e.status = FREE \/ e.status = DELETED THEN e
  ELSE IF e.status = INLINE_VALUE
  THEN [e EXCEPT !.key = DataFini(e.key), !.value = DataFini(e.value)]
  ELSE [e EXCEPT !.key = DataFini(e.key)]

\* HashEntry::CopyTo(): status (or list pointer), hash, key and, when inline,
\* the value
CopyTo(e) ==
  [status |-> e.status, hash_value |-> e.hash_value,
   key |-> DataInit(RAW, e.key),
   value |-> IF e.status = INLINE_VALUE THEN DataInit(RAW, e.value) ELSE RAW]

\* Faulty variant of GetHashEntryListStatic(): the entry behind the array is
\* left FREE
GetHashEntryListNoSentinel(n) ==
  [i \in 0 .. n |->
     [status |-> FREE, hash_value |-> RAW, key |-> RAW, value |-> RAW]]

\* GetHashEntryListStatic(): entry_count FREE entries and the sentinel
GetHashEntryListStatic(n) ==
  [i \in 0 .. n |->
     [status |-> IF i < n THEN FREE ELSE INLINE_VALUE,
      hash_value |-> RAW, key |-> RAW, value |-> RAW]]

\* GetNextEntry(): next index, wrapping back at the end of the array
GetNextEntry(t, index) == IF index + 1 = t.entry_count THEN 0 ELSE index + 1

\* Number of values an entry holds
ValueCount(t, e) ==
  IF ~IsValidEntry(e) THEN 0
  ELSE IF HasKeyValueList(e) THEN t.kvl[e.status].size
  ELSE 1

\* The real slots (the sentinel excluded)
Slots(t) == 0 .. (t.entry_count - 1)

RECURSIVE SumValues(_, _)
SumValues(t, i) ==
  IF i < 0 THEN 0 ELSE ValueCount(t, t.entry_list_p[i]) + SumValues(t, i - 1)

TotalValues(t) == SumValues(t, t.entry_count - 1)

NumValid(t) == Cardinality({i \in Slots(t) : IsValidEntry(t.entry_list_p[i])})

(***************************************************************************)
(* HashTable_OA_KVL: probing                                               *)
(***************************************************************************)
\* ProbeForResize(): the first free entry from hash_value & index_mask
RECURSIVE ProbeForResizeFrom(_, _, _)
ProbeForResizeFrom(t, list, index) ==
  IF IsFree(list[index]) THEN index
  ELSE ProbeForResizeFrom(t, list, GetNextEntry(t, index))

ProbeForResize(t, list, hash_value) ==
  ProbeForResizeFrom(t, list, BitAnd(hash_value, t.index_mask))

\* The loop of ProbeForSearch(): "seen" counts the entries looked at
RECURSIVE ProbeForSearchFrom(_, _, _, _)
ProbeForSearchFrom(t, key, index, seen) ==
  LET e == t.entry_list_p[index] IN
  IF IsProbeEndForSearch(e) THEN NoEntry
  ELSE IF ~IsDeleted(e) /\ key = e.key THEN index
  ELSE IF seen = t.entry_count THEN Diverges
  ELSE ProbeForSearchFrom(t, key, GetNextEntry(t, index), seen + 1)

\* ProbeForSearch(): the entry of key, NoEntry, or Diverges
ProbeForSearch(t, key) ==
  ProbeForSearchFrom(t, key, BitAnd(Hash(key), t.index_mask), 1)

\* entry_list_p + (hash & index_mask), where the probes start, is an entry of
\* the array
ProbeInBounds(t, key) == BitAnd(Hash(key), t.index_mask) \in Slots(t)

\* The loop of ProbeForInsert(): where probing stops and whether on the key
RECURSIVE ProbeForInsertFrom(_, _, _, _)
ProbeForInsertFrom(t, key, index, seen) ==
  LET e == t.entry_list_p[index] IN
  IF IsProbeEndForInsert(e) THEN [index |-> index, found |-> FALSE]
  ELSE IF key = e.key THEN [index |-> index, found |-> TRUE]
  ELSE IF seen = t.entry_count THEN [index |-> Diverges, found |-> FALSE]
  ELSE ProbeForInsertFrom(t, key, GetNextEntry(t, index), seen + 1)

\* ProbeForInsert(): the table after it, and the Data<ValueType> it returns
\* ("inline": the value of entry at; "kvl": data[pos] of the list at address at)
ProbeForInsert(t, key) ==
  LET hash_value == Hash(key)
      p == ProbeForInsertFrom(t, key, BitAnd(hash_value, t.index_mask), 1)
      e == t.entry_list_p[p.index]
  IN
  IF p.index = Diverges THEN
    [t |-> t, kind |-> "diverges", at |-> 0, pos |-> 0]
  ELSE IF ~p.found THEN
    [t |-> [t EXCEPT !.active_entry_count = t.active_entry_count + 1,
                     !.entry_list_p[p.index] =
                        [status |-> INLINE_VALUE, hash_value |-> hash_value,
                         key |-> DataInit(e.key, key), value |-> e.value]],
     kind |-> "inline", at |-> p.index, pos |-> 0]
  ELSE IF ~HasKeyValueList(e) THEN
    LET kv_p == Malloc(t.kvl)
        l == FillValue([GetNew EXCEPT !.size = 2], 0, e.value)
    IN [t |-> [t EXCEPT !.kvl[kv_p] = l,
                        !.entry_list_p[p.index] =
                           [e EXCEPT !.status = kv_p,
                                     !.value = DataFini(e.value)]],
        kind |-> "kvl", at |-> kv_p, pos |-> 1]
  ELSE IF IsFull(t.kvl[e.status]) THEN
    LET old == t.kvl[e.status]
        kv_p == Malloc(t.kvl)
        l == GetResized(old)
        heap == [t.kvl EXCEPT ![kv_p] = [l EXCEPT !.size = l.size + 1],
                              ![e.status] = DestroyAllValues(old)]
    IN [t |-> [t EXCEPT !.kvl = Free(heap, e.status),
                        !.entry_list_p[p.index] = [e EXCEPT !.status = kv_p]],
        kind |-> "kvl", at |-> kv_p, pos |-> l.size]
  ELSE
    LET l == t.kvl[e.status]
    IN [t |-> [t EXCEPT !.kvl[e.status] = [l EXCEPT !.size = l.size + 1]],
        kind |-> "kvl", at |-> e.status, pos |-> l.size]

\* value_p->Init(value) on the Data<ValueType> ProbeForInsert() returned
InitValue(p, value) ==
  IF p.kind = "inline"
  THEN [p.t EXCEPT !.entry_list_p[p.at].value = DataInit(@, value)]
  ELSE [p.t EXCEPT !.kvl[p.at].data[p.pos + 1] = DataInit(@, value)]


(***************************************************************************)
(* HashTable_OA_KVL: construction, resize, the public calls                *)
(***************************************************************************)
\* GetInitEntryCount(): at least MINIMUM_ENTRY_COUNT, at least one page
GetInitEntryCount(requested_size) ==
  LET floored == IF requested_size < MINIMUM_ENTRY_COUNT
                 THEN MINIMUM_ENTRY_COUNT ELSE requested_size
      proposed_size == PAGE_SIZE \div SizeofHashEntry
  IN IF proposed_size > floored THEN proposed_size ELSE floored

\* SetSizeAndMask() once the one is shifted: <<entry_count, index_mask>>
SizeAndMask(count, requested_is_half) ==
  LET mask == count - 1 IN
  IF requested_is_half THEN <<count \div 2, mask \div 2>> ELSE <<count, mask>>

\* SetSizeAndMask(): the <<entry_count, index_mask>> it can set for a
\* requested size
SetSizeAndMask(requested_size) ==
  {SizeAndMask(count, requested_size = count \div 2) :
     count \in IntShiftLeftOne(EffectiveBits(requested_size))}

\* SetSizeAndMask() for a requested size of 2^one_bit, one_bit >= IntBits - 1.
\* Such a size is named by its one bit because it is beyond the numbers that
\* can be written here.  It has one_bit + 1 significant bits, and it is not
\* the half of what the shift of the int yields, which is below it.
SetSizeAndMaskHuge(one_bit) ==
  {SizeAndMask(count, FALSE) : count \in IntShiftLeftOne(one_bit + 1)}

\* Resize(): double the array and rehash every valid entry of the old one
RECURSIVE ResizeLoop(_, _, _, _, _)
ResizeLoop(t, old, list, i, remaining) ==
  IF remaining = 0 THEN list
  ELSE IF IsValidEntry(old[i]) THEN
    LET new_entry == ProbeForResize(t, list, old[i].hash_value)
    IN ResizeLoop(t, old, [list EXCEPT ![new_entry] = CopyTo(old[i])],
                  i + 1, remaining - 1)
  ELSE ResizeLoop(t, old, list, i + 1, remaining)

\* Faulty variant of Resize(): it returns at once
NoResize(t) == t

OA_Resize(t) ==
  LET new_count == 2 * t.entry_count
      sized == [t EXCEPT !.entry_count = new_count,
                         !.index_mask = new_count - 1,
                         !.resize_threshold = LoadFactor(new_count)]
  IN [sized EXCEPT !.entry_list_p =
        ResizeLoop(sized, t.entry_list_p, GetHashEntryListStatic(new_count),
                   0, t.active_entry_count)]

\* The loop of Resize() stays inside the old array (it reads neither the
\* sentinel's hash nor memory behind the sentinel)
ResizeInBounds(t) == t.active_entry_count <= NumValid(t)

\* Faulty variant of DeleteEntry(): the entry that follows is moved into the
\* deleted one
DeleteEntryBackShift(t, i) ==
  LET e == t.entry_list_p[i]
      n == IF i + 1 = t.entry_count THEN 0 ELSE i + 1
      destroyed == [t.kvl EXCEPT ![e.status] = DestroyAllValues(@)]
      heap == IF HasKeyValueList(e) THEN Free(destroyed, e.status) ELSE t.kvl
      hole == [Fini(e) EXCEPT !.status = DELETED]
  IN [t EXCEPT !.kvl = heap,
               !.entry_list_p[i] =
                  IF IsValidEntry(t.entry_list_p[n]) THEN t.entry_list_p[n]
                  ELSE hole,
               !.entry_list_p[n] =
                  IF IsValidEntry(t.entry_list_p[n]) /\ n # i THEN hole ELSE @,
               !.active_entry_count = t.active_entry_count - 1]

\* Faulty variant of DeleteEntry(): the entry is marked FREE
DeleteEntryFree(t, i) ==
  LET e == t.entry_list_p[i]
      heap == IF HasKeyValueList(e)
              THEN [t.kvl EXCEPT ![e.status] = NoKVL] ELSE t.kvl
  IN [t EXCEPT !.kvl = heap,
               !.entry_list_p[i] = [Fini(e) EXCEPT !.status = FREE],
               !.active_entry_count = t.active_entry_count - 1]

\* DeleteEntry() without its active_entry_count--
DeleteEntryKeepCount(t, i) ==
  LET e == t.entry_list_p[i]
      heap == IF HasKeyValueList(e)
              THEN [t.kvl EXCEPT ![e.status] = NoKVL] ELSE t.kvl
  IN [t EXCEPT !.kvl = heap,
               !.entry_list_p[i] = [Fini(e) EXCEPT !.status = DELETED]]

\* DeleteEntry(): free the list, destroy key and value, mark DELETED
DeleteEntry(t, i) ==
  LET e == t.entry_list_p[i]
      destroyed == [t.kvl EXCEPT ![e.status] = DestroyAllValues(@)]
      heap == IF HasKeyValueList(e) THEN Free(destroyed, e.status) ELSE t.kvl
  IN [t EXCEPT !.kvl = heap,
               !.entry_list_p[i] = [Fini(e) EXCEPT !.status = DELETED],
               !.active_entry_count = t.active_entry_count - 1]

\* Faulty variant of FreeEntry(): the key value list is not freed
FreeEntryKeepList(t, entry_p) ==
  [t EXCEPT !.entry_list_p[entry_p] = Fini(t.entry_list_p[entry_p])]

\* One valid entry in the loop of FreeAllHashEntries(): Fini(), and
\* DestroyAllValues() and free() of its key value list
FreeEntry(t, entry_p) ==
  LET e == t.entry_list_p[entry_p]
      destroyed == [t.kvl EXCEPT ![e.status] = DestroyAllValues(@)]
  IN [t EXCEPT !.entry_list_p[entry_p] = Fini(e),
               !.kvl = IF HasKeyValueList(e) THEN Free(destroyed, e.status)
                       ELSE t.kvl]

\* The loop of FreeAllHashEntries() from entry_p on, remaining valid entries
\* to come; it ends behind the sentinel when it finds too few
RECURSIVE FreeAllLoop(_, _, _)
FreeAllLoop(t, entry_p, remaining) ==
  IF remaining = 0 THEN [t |-> t, end |-> "none"]
  ELSE IF entry_p > t.entry_count THEN [t |-> t, end |-> "out of bounds"]
  ELSE IF IsValidEntry(t.entry_list_p[entry_p])
  THEN FreeAllLoop(FreeEntry(t, entry_p), entry_p + 1, remaining - 1)
  ELSE FreeAllLoop(t, entry_p + 1, remaining)

\* ~HashTable_OA_KVL(): what FreeAllHashEntries() leaves in the array and on
\* the heap before the array is freed
FreeAllHashEntries(t) == FreeAllLoop(t, 0, t.active_entry_count)

\* What a caller reads through the pair GetValue() returns
NullRange == [kind |-> "null", at |-> 0, count |-> 0, values |-> <<>>]

OA_GetValue(t, key) ==
  LET entry_p == ProbeForSearch(t, key)
      e == t.entry_list_p[entry_p]
  IN IF entry_p = Diverges THEN [NullRange EXCEPT !.kind = "diverges"]
     ELSE IF entry_p = NoEntry THEN NullRange
     ELSE IF HasKeyValueList(e) THEN
       [kind |-> "kvl", at |-> e.status, count |-> t.kvl[e.status].size,
        values |-> SubSeq(t.kvl[e.status].data, 1, t.kvl[e.status].size)]
     ELSE [kind |-> "inline", at |-> entry_p, count |-> 1,
           values |-> <<e.value>>]

\* What a caller reads through the pointer GetFirstValue() returns
OA_GetFirstValue(t, key) ==
  LET entry_p == ProbeForSearch(t, key)
      e == t.entry_list_p[entry_p]
  IN IF entry_p = Diverges THEN [NullRange EXCEPT !.kind = "diverges"]
     ELSE IF entry_p = NoEntry THEN NullRange
     ELSE IF HasKeyValueList(e) THEN
       [kind |-> "kvl", at |-> e.status, count |-> 1,
        values |-> <<t.kvl[e.status].data[1]>>]
     ELSE [kind |-> "inline", at |-> entry_p, count |-> 1,
           values |-> <<e.value>>]

\* Insert(key, value) as a function of the table: the table it leaves, and
\* "none" or the way it fails to return
OA_Insert(t0, key, value) ==
  LET resize == t0.active_entry_count = t0.resize_threshold
      t1 == IF resize THEN OA_Resize(t0) ELSE t0
      p == ProbeForInsert(t1, key)
  IN IF resize /\ ~ResizeInBounds(t0) THEN [t |-> t0, end |-> "out of bounds"]
     ELSE IF resize /\ ~(t1.active_entry_count < t1.resize_threshold)
          THEN [t |-> t1, end |-> "assert"]
     ELSE IF p.kind = "diverges" THEN [t |-> t1, end |-> "diverges"]
     ELSE [t |-> InitValue(p, value), end |-> "none"]

\* The iterators that point at a stored value: entry and remaining
Iterators(t) ==
  {it \in [entry : Slots(t), remaining : 1 .. MaxFill] :
     /\ IsValidEntry(t.entry_list_p[it.entry])
     /\ it.remaining <= ValueCount(t, t.entry_list_p[it.entry])}

\* operator*() of an iterator
Deref(t, it) ==
  LET e == t.entry_list_p[it.entry] IN
  IF HasKeyValueList(e)
  THEN t.kvl[e.status].data[t.kvl[e.status].size - it.remaining + 1]
  ELSE e.value

\* Faulty variant of Delete(it): the last value of a list is removed by
\* DeleteIndex() as well
OA_DeleteToEmpty(t, it) ==
  LET e == t.entry_list_p[it.entry] IN
  IF ~HasKeyValueList(e) THEN DeleteEntry(t, it.entry)
  ELSE [t EXCEPT !.kvl[e.status] =
          DeleteIndex(t.kvl[e.status], t.kvl[e.status].size - it.remaining)]

\* Delete(it)
OA_Delete(t, it) ==
  LET e == t.entry_list_p[it.entry] IN
  IF ~HasKeyValueList(e) THEN DeleteEntry(t, it.entry)
  ELSE IF t.kvl[e.status].size = 1 THEN DeleteEntry(t, it.entry)
  ELSE [t EXCEPT !.kvl[e.status] =
          DeleteIndex(t.kvl[e.status], t.kvl[e.status].size - it.remaining)]

(***************************************************************************)
(* HashTable_OA_KVL: class Iterator                                        *)
(***************************************************************************)
\* A ValueType * is the object it points into and a position in it:
\* &entry_p->value.data and &kv_p->data[0].data
InlineValue(entry_p) == [in |-> "entry", at |-> entry_p, pos |-> 0]
ListValue(kv_p) == [in |-> "kvl", at |-> kv_p, pos |-> 0]

\* Iterator{entry_p, value_p, remaining}
Iterator(entry_p, value_p, remaining) ==
  [entry_p |-> entry_p, value_p |-> value_p, remaining |-> remaining]

\* BuildIterator(): the iterator on the first value of an entry
BuildIterator(t, entry_p) ==
  LET e == t.entry_list_p[entry_p] IN
  IF HasKeyValueList(e)
  THEN Iterator(entry_p, ListValue(e.status), t.kvl[e.status].size)
  ELSE Iterator(entry_p, InlineValue(entry_p), 1)

\* End(): the iterator built on the sentinel
End(t) == BuildIterator(t, t.entry_count)

\* while(entry_p->IsValidEntry() == false) entry_p++; an index behind the
\* sentinel stands for a pointer that left the array
RECURSIVE SkipInvalid(_, _)
SkipInvalid(t, entry_p) ==
  IF entry_p > t.entry_count THEN entry_p
  ELSE IF IsValidEntry(t.entry_list_p[entry_p]) THEN entry_p
  ELSE SkipInvalid(t, entry_p + 1)

\* Begin(): End() for an empty table, else the first valid entry
Begin(t) ==
  IF t.active_entry_count = 0 THEN End(t)
  ELSE BuildIterator(t, SkipInvalid(t, 0))

\* Begin(key)
BeginKey(t, key) ==
  LET entry_p == ProbeForSearch(t, key) IN
  IF entry_p = NoEntry THEN End(t) ELSE BuildIterator(t, entry_p)

\* KeyRange(key): <<it1, it2>>
KeyRange(t, key) ==
  LET entry_p == ProbeForSearch(t, key)
      it1 == BuildIterator(t, entry_p)
  IN IF entry_p = NoEntry THEN <<End(t), End(t)>>
     ELSE <<it1,
            [it1 EXCEPT !.value_p.pos = it1.value_p.pos + (it1.remaining - 1),
                        !.remaining = 1]>>

\* Faulty variant of GotoNextEntry(): it steps to the next entry, valid or not
GotoNextEntryNoSkip(t, it) == [it EXCEPT !.entry_p = it.entry_p + 1]

\* Iterator::GotoNextEntry()
GotoNextEntry(t, it) == [it EXCEPT !.entry_p = SkipInvalid(t, it.entry_p + 1)]

\* Iterator::Advance()
Advance(t, it) ==
  LET moved == [it EXCEPT !.remaining = it.remaining - 1,
                          !.value_p.pos = it.value_p.pos + 1]
  IN IF moved.remaining = 0
     THEN BuildIterator(t, GotoNextEntry(t, moved).entry_p)
     ELSE moved

\* Iterator::operator==()
IteratorEq(a, b) == a.entry_p = b.entry_p /\ a.remaining = b.remaining

\* Iterator::operator*(): the object value_p points at (RAW: storage that
\* holds no constructed value)
Star(t, it) ==
  LET v == it.value_p IN
  IF v.in = "entry" THEN
    (IF v.pos = 0 THEN t.entry_list_p[v.at].value ELSE RAW)
  ELSE IF v.pos < t.kvl[v.at].size THEN t.kvl[v.at].data[v.pos + 1]
  ELSE RAW

\* Iterator::GetKey()
GetKey(t, it) == t.entry_list_p[it.entry_p].key

\* for(it = from; it != End(); it++): the <<key, value>> pairs the loop
\* visits.  "left" bounds the steps; a loop that uses them up, or whose
\* iterator leaves the array, is one that does not come to End().
RECURSIVE IterateFrom(_, _, _)
IterateFrom(t, it, left) ==
  IF it.entry_p > t.entry_count THEN <<"out of bounds">>
  ELSE IF IteratorEq(it, End(t)) THEN <<>>
  ELSE IF left = 0 THEN <<"diverges">>
  ELSE <<<<GetKey(t, it), Star(t, it)>>>>
         \o IterateFrom(t, Advance(t, it), left - 1)

\* for(it = Begin(); it != End(); it++)
Iterate(t) == IterateFrom(t, Begin(t), TotalValues(t) + 1)



\* The loop of GetMaxSearchProbeLength() from entry i on
RECURSIVE MaxSearchProbeLengthLoop(_, _, _, _)
MaxSearchProbeLengthLoop(t, i, count, max_count) ==
  IF i >= t.entry_count THEN max_count
  ELSE IF IsProbeEndForSearch(t.entry_list_p[i]) THEN
    IF count > max_count
    THEN MaxSearchProbeLengthLoop(t, i + 1, 1, count)
    ELSE MaxSearchProbeLengthLoop(t, i + 1, 1, max_count)
  ELSE MaxSearchProbeLengthLoop(t, i + 1, count + 1, max_count)

\* GetMaxSearchProbeLength()
GetMaxSearchProbeLength(t) == MaxSearchProbeLengthLoop(t, 0, 1, 0)

\* The loop of GetMeanSearchProbeLength() from entry i on
RECURSIVE MeanSearchProbeLengthLoop(_, _, _, _, _, _)
MeanSearchProbeLengthLoop(t, i, count, total_count, sequence_count, previous_valid) ==
  IF i >= t.entry_count THEN <<total_count, sequence_count>>
  ELSE IF IsProbeEndForSearch(t.entry_list_p[i]) THEN
    IF previous_valid
    THEN MeanSearchProbeLengthLoop(t, i + 1, 1, total_count + count,
                                   sequence_count + 1, FALSE)
    ELSE MeanSearchProbeLengthLoop(t, i + 1, 1, total_count, sequence_count,
                                   FALSE)
  ELSE MeanSearchProbeLengthLoop(t, i + 1, count + 1, total_count,
                                 sequence_count, TRUE)

\* GetMeanSearchProbeLength(): <<total_count, sequence_count>>, the two
\* numbers whose quotient as doubles it returns (not a number for 0 / 0)
GetMeanSearchProbeLength(t) == MeanSearchProbeLengthLoop(t, 0, 1, 0, 0, FALSE)

(***************************************************************************)
(* HashTable_CA_CC and HashTable_CA_SCC: what the two classes share        *)
(***************************************************************************)
\* The members of a closed addressing table and the HashEntry nodes its
\* pointers name, as one value the private functions transform.
CATable ==
  [entry_p_list_p |-> entry_p_list_p, nodes |-> nodes,
   dummy_next |-> dummy_next, index_mask |-> index_mask,
   slot_count |-> slot_count, entry_count |-> entry_count,
   resize_threshold |-> resize_threshold]

\* new HashEntry*[slot_count] followed by memset(..., 0x0, ...)
NewSlots(n) == [i \in 0 .. (n - 1) |-> nullptr]

\* The constructors' rounding of p_slot_count: the <<slot_count, index_mask>>
\* it can set.  The test that is meant to shift a power of two back compares
\* slot_count with its own half.  (p_slot_count stays below 2^(IntBits - 1)
\* here, so that half of the all ones mask is never taken.)
CA_RoundUp(p_slot_count) ==
  {LET mask == slot - 1 IN
     IF slot \div 2 = slot
     THEN <<slot \div 2, mask \div 2>>
     ELSE <<slot, mask>>
   : slot \in IntShiftLeftOne(EffectiveBits(p_slot_count))}

\* What GetValue(key, &value_list) leaves in the vector
Vector(values) ==
  [kind |-> "vector", at |-> 0, count |-> Len(values), values |-> values]

(***************************************************************************)
(* HashTable_CA_SCC                                                        *)
(***************************************************************************)
\* Faulty variant of the while loop of Resize(): only the head of the old
\* chain is hooked onto its new slot
SCC_ScatterHeadOnly(t, entry_p) ==
  IF entry_p = nullptr THEN t
  ELSE
    LET new_index == BitAnd(t.nodes[entry_p].hash_value, t.index_mask)
    IN [t EXCEPT !.nodes[entry_p].next_p = t.entry_p_list_p[new_index],
                 !.entry_p_list_p[new_index] = entry_p]

\* The while loop of Resize(): hook every entry of one old chain onto the
\* head of its new slot
RECURSIVE SCC_ScatterChain(_, _)
SCC_ScatterChain(t, entry_p) ==
  IF entry_p = nullptr THEN t
  ELSE
    LET new_index == BitAnd(t.nodes[entry_p].hash_value, t.index_mask)
        next_p == t.nodes[entry_p].next_p
    IN SCC_ScatterChain(
         [t EXCEPT !.nodes[entry_p].next_p = t.entry_p_list_p[new_index],
                   !.entry_p_list_p[new_index] = entry_p],
         next_p)

\* The for loop of Resize() over the old slot array
RECURSIVE SCC_ResizeLoop(_, _, _, _)
SCC_ResizeLoop(t, old_p, i, old_slot_count) ==
  IF i = old_slot_count THEN t
  ELSE SCC_ResizeLoop(SCC_ScatterChain(t, old_p[i]), old_p, i + 1,
                      old_slot_count)

\* Resize()
SCC_Resize(t) ==
  LET new_count == 2 * t.slot_count
      sized == [t EXCEPT !.slot_count = new_count,
                         !.index_mask = new_count - 1,
                         !.resize_threshold = LoadFactor(new_count),
                         !.entry_p_list_p = NewSlots(new_count)]
  IN SCC_ResizeLoop(sized, t.entry_p_list_p, 0, t.slot_count)

\* The while loop of GetValue(): the values the call back is handed
RECURSIVE SCC_GetValueLoop(_, _, _, _)
SCC_GetValueLoop(t, key, entry_p, out) ==
  IF entry_p = nullptr THEN out
  ELSE SCC_GetValueLoop(t, key, t.nodes[entry_p].next_p,
                        IF key = t.nodes[entry_p].key
                        THEN Append(out, t.nodes[entry_p].value) ELSE out)

\* GetValue(key, &value_list)
SCC_GetValue(t, key) ==
  LET hash_value == Hash(key)
      index == BitAnd(t.index_mask, hash_value)
  IN Vector(SCC_GetValueLoop(t, key, t.entry_p_list_p[index], <<>>))

\* The part of Insert() after the resize
SCC_Link(t, key, value) ==
  LET hash_value == Hash(key)
      index == BitAnd(t.index_mask, hash_value)
      entry_p == Len(t.nodes) + 1
  IN [t EXCEPT !.nodes = Append(t.nodes,
                                [hash_value |-> hash_value,
                                 next_p |-> t.entry_p_list_p[index],
                                 key |-> key, value |-> value]),
               !.entry_p_list_p[index] = entry_p,
               !.entry_count = t.entry_count + 1]

(***************************************************************************)
(* HashTable_CA_CC                                                         *)
(***************************************************************************)
\* Faulty variant of InsertIntoSlot(): an insert into an empty slot leaves the
\* slot of the previous first entry of the chain as it is
CC_InsertIntoSlotKeepPrev(t, entry_p, index) ==
  LET p == t.entry_p_list_p[index] IN
  IF p = nullptr THEN
    [t |-> [t EXCEPT !.entry_p_list_p[index] = entry_p,
                     !.nodes[entry_p].next_p = t.dummy_next,
                     !.dummy_next = entry_p],
     ok |-> TRUE]
  ELSE
    LET t1 == [t EXCEPT !.nodes[entry_p].next_p = p]
    IN [t |-> [t1 EXCEPT !.nodes[t1.entry_p_list_p[index]].next_p = entry_p],
        ok |-> TRUE]

\* InsertIntoSlot(): the table after it, and whether its assert held
CC_InsertIntoSlot(t, entry_p, index) ==
  LET p == t.entry_p_list_p[index] IN
  IF p = nullptr THEN
    LET t1 == [t EXCEPT !.entry_p_list_p[index] = entry_p,
                        !.nodes[entry_p].next_p = t.dummy_next]
    IN IF t1.dummy_next = nullptr THEN
         [t |-> [t1 EXCEPT !.dummy_next = entry_p,
                           !.nodes[entry_p].next_p = nullptr,
                           !.entry_p_list_p[index] = entry_p],
          ok |-> TRUE]
       ELSE
         LET prev_index ==
               BitAnd(t1.nodes[t1.dummy_next].hash_value, t1.index_mask)
         IN IF t1.entry_p_list_p[prev_index] # t1.dummy_next
            THEN [t |-> t1, ok |-> FALSE]
            ELSE [t |-> [t1 EXCEPT !.entry_p_list_p[prev_index] = entry_p,
                                   !.dummy_next = entry_p],
                  ok |-> TRUE]
  ELSE
    LET t1 == [t EXCEPT !.nodes[entry_p].next_p = p]
    IN [t |-> [t1 EXCEPT !.nodes[t1.entry_p_list_p[index]].next_p = entry_p],
        ok |-> TRUE]

\* The while loop of Resize(): entry_p->next_p is read after InsertIntoSlot()
\* has written it.  "seen" counts the entries handed to InsertIntoSlot().
RECURSIVE CC_ResizeLoop(_, _, _)
CC_ResizeLoop(t, entry_p, seen) ==
  IF entry_p = nullptr THEN [t |-> t, end |-> "none"]
  ELSE IF seen > Len(t.nodes) THEN [t |-> t, end |-> "diverges"]
  ELSE
    LET new_index == BitAnd(t.nodes[entry_p].hash_value, t.index_mask)
        r == CC_InsertIntoSlot(t, entry_p, new_index)
    IN IF ~r.ok THEN [t |-> r.t, end |-> "assert InsertIntoSlot"]
       ELSE CC_ResizeLoop(r.t, r.t.nodes[entry_p].next_p, seen + 1)

\* Resize()
CC_Resize(t) ==
  LET new_count == 2 * t.slot_count
      sized == [t EXCEPT !.slot_count = new_count,
                         !.index_mask = new_count - 1,
                         !.resize_threshold = LoadFactor(new_count),
                         !.entry_p_list_p = NewSlots(new_count),
                         !.dummy_next = nullptr]
  IN CC_ResizeLoop(sized, t.dummy_next, 1)

\* The do-while loop of GetValue(): entry_p is advanced first, its key is
\* read next, and only the loop condition tests it against nullptr.  "seen"
\* counts the rounds; a round more than there are entries is a round on an
\* entry the loop has been on, with nothing changed: it never ends.
RECURSIVE CC_GetValueLoop(_, _, _, _, _, _)
CC_GetValueLoop(t, key, hash_value, entry_p, out, seen) ==
  LET next_p == t.nodes[entry_p].next_p IN
  IF next_p = nullptr THEN [Vector(out) EXCEPT !.kind = "nullptr"]
  ELSE
    LET out1 == IF key = t.nodes[next_p].key
                THEN Append(out, t.nodes[next_p].value) ELSE out
    IN IF t.nodes[next_p].hash_value # hash_value THEN Vector(out1)
       ELSE IF seen > Len(t.nodes) THEN [Vector(out1) EXCEPT !.kind = "diverges"]
       ELSE CC_GetValueLoop(t, key, hash_value, next_p, out1, seen + 1)

\* GetValue(key, &value_list)
CC_GetValue(t, key) ==
  LET hash_value == Hash(key)
      index == BitAnd(t.index_mask, hash_value)
      entry_p == t.entry_p_list_p[index]
  IN IF entry_p = nullptr THEN Vector(<<>>)
     ELSE CC_GetValueLoop(t, key, hash_value, entry_p, <<>>, 1)

\* The part of Insert() after the resize: new HashEntry{hash_value, key,
\* value} (next_p not initialized), InsertIntoSlot(), entry_count++
CC_Link(t, key, value) ==
  LET hash_value == Hash(key)
      index == BitAnd(t.index_mask, hash_value)
      entry_p == Len(t.nodes) + 1
      r == CC_InsertIntoSlot(
             [t EXCEPT !.nodes = Append(t.nodes,
                                        [hash_value |-> hash_value,
                                         next_p |-> RAW,
                                         key |-> key, value |-> value])],
             entry_p, index)
  IN [t |-> [r.t EXCEPT !.entry_count = t.entry_count + 1], ok |-> r.ok]

\* The loop of the destructor: the entries it deletes, in the order of the
\* global chain behind dummy_entry, until next_p is nullptr ("none") or is an
\* entry it has deleted already ("double free")
RECURSIVE CC_DestructorLoop(_, _, _)
CC_DestructorLoop(t, entry_p, deleted) ==
  IF entry_p = nullptr THEN [deleted |-> deleted, end |-> "none"]
  ELSE IF \E n \in 1 .. Len(deleted) : deleted[n] = entry_p
       THEN [deleted |-> deleted, end |-> "double free"]
  ELSE CC_DestructorLoop(t, t.nodes[entry_p].next_p, Append(deleted, entry_p))

\* ~HashTable_CA_CC()
CC_Destructor(t) == CC_DestructorLoop(t, t.dummy_next, <<>>)

(***************************************************************************)
(* State after construction                                                *)
(***************************************************************************)
\* LoadFactorPercent<percentage> instances offered
Percentages == {1, 7, 400}

Policies ==
  {[kind |-> "HalfFull", percentage |-> 0],
   [kind |-> "ThreeFourthFull", percentage |-> 0]}
  \cup {[kind |-> "Percent", percentage |-> p] : p \in Percentages}

Call(op, key, range, ok) == [op |-> op, key |-> key, range |-> range, ok |-> ok]

\* The call of a constructor with a requested size, and with a requested
\* size of 2^one_bit
Constructed(requested) == Call("constructor", requested, NullRange, TRUE)

ConstructedHuge(one_bit) ==
  Call("constructor", one_bit, [NullRange EXCEPT !.kind = "one bit"], TRUE)

\* What Insert(key, ...) finds when it is called on an OA_KVL table: the
\* number of valid entries, and how many of them hold key
Snapshot(t, key) ==
  [active_entry_count |-> t.active_entry_count,
   held |-> Cardinality({i \in 0 .. (t.entry_count - 1) :
                          /\ IsValidEntry(t.entry_list_p[i])
                          /\ t.entry_list_p[i].key = key})]

NoSnapshot == [active_entry_count |-> RAW, held |-> RAW]

History ==
  /\ inserted = [k \in keys |-> <<>>]
  /\ before = NoSnapshot
  /\ fault = "none"

\* HashTable_OA_KVL(init_entry_count, ...) from SetSizeAndMask() on, sm what
\* that has set
OA_Construct(sm) ==
  /\ variant = "OA_KVL"
  /\ active_entry_count = 0
  /\ entry_count = sm[1]
  /\ index_mask = sm[2]
  /\ resize_threshold = LoadFactor(sm[1])
  /\ entry_list_p = GetHashEntryListStatic(sm[1])
  /\ kvl = [a \in KVLAddrs |-> NoKVL]
  /\ slot_count = 0
  /\ entry_p_list_p = <<>>
  /\ nodes = <<>>
  /\ dummy_next = nullptr

\* HashTable_OA_KVL(init_entry_count, ...)
OA_Init(init_entry_count) ==
  /\ ret = Constructed(init_entry_count)
  /\ \E sm \in SetSizeAndMask(GetInitEntryCount(init_entry_count)) :
       OA_Construct(sm)

\* HashTable_OA_KVL(init_entry_count, ...) for init_entry_count = 2^one_bit,
\* one_bit >= IntBits - 1: GetInitEntryCount() returns such a size as it is
OA_InitHuge(one_bit) ==
  /\ ret = ConstructedHuge(one_bit)
  /\ \E sm \in SetSizeAndMaskHuge(one_bit) : OA_Construct(sm)

\* HashTable_CA_CC(p_slot_count, ...) and HashTable_CA_SCC(p_slot_count, ...)
\* from the rounding on, sm what that has set
CA_Construct(class, sm) ==
  /\ variant = class
  /\ slot_count = sm[1]
  /\ index_mask = sm[2]
  /\ entry_count = 0
  /\ resize_threshold = LoadFactor(sm[1])
  /\ dummy_next = nullptr
  /\ entry_p_list_p = NewSlots(sm[1])
  /\ nodes = <<>>
  /\ active_entry_count = 0
  /\ entry_list_p = <<>>
  /\ kvl = <<>>

\* HashTable_CA_CC(p_slot_count, ...) and HashTable_CA_SCC(p_slot_count, ...)
CA_Init(class, p_slot_count) ==
  /\ ret = Constructed(p_slot_count)
  /\ \E sm \in CA_RoundUp(p_slot_count) : CA_Construct(class, sm)

\* Calculators the OA_KVL table is instantiated with (with the others an array
\* of MINIMUM_ENTRY_COUNT entries that holds MaxTotalValues values never
\* resizes)
OA_Policies == {l \in Policies : l.kind = "Percent" /\ l.percentage \in {1, 7}}

\* Calculators the closed addressing tables are instantiated with
CA_Policies == {l \in Policies : l.kind = "Percent" => l.percentage \in {1, 400}}

\* Sizes requested from the OA_KVL constructor: below the minimum, and from
\* the minimum on (the first is a power of two, the others are rounded up)
OA_Requests ==
  (0 .. MaxRequest) \cup {MINIMUM_ENTRY_COUNT + r : r \in 0 .. MaxRequest}

Init ==
  \/ /\ keys = OA_Keys
     /\ key_hash_obj = "StdHash"
     /\ lfc \in OA_Policies
     /\ History
     /\ \E r \in OA_Requests : OA_Init(r)
  \/ /\ keys = CA_Keys
     /\ key_hash_obj \in {"ConstantZero", "StdHash"}
     /\ lfc \in CA_Policies
     /\ History
     /\ \E class \in {"CA_CC", "CA_SCC"}, r \in 1 .. MaxRequest :
          CA_Init(class, r)

(***************************************************************************)
(* HashTable_OA_KVL: the calls                                             *)
(***************************************************************************)
SetOA(t) ==
  /\ entry_list_p' = t.entry_list_p
  /\ kvl' = t.kvl
  /\ index_mask' = t.index_mask
  /\ active_entry_count' = t.active_entry_count
  /\ entry_count' = t.entry_count
  /\ resize_threshold' = t.resize_threshold

SetCA(t) ==
  /\ entry_p_list_p' = t.entry_p_list_p
  /\ nodes' = t.nodes
  /\ dummy_next' = t.dummy_next
  /\ index_mask' = t.index_mask
  /\ slot_count' = t.slot_count
  /\ entry_count' = t.entry_count
  /\ resize_threshold' = t.resize_threshold

Params == <<variant, keys, key_hash_obj, lfc>>
OAOnly == <<entry_list_p, kvl, active_entry_count>>
CAOnly == <<slot_count, entry_p_list_p, nodes, dummy_next>>
Shared == <<index_mask, entry_count, resize_threshold>>

\* The multimap a caller sees: per key the values GetValue() hands out
OA_Contents(t) == [k \in keys |-> OA_GetValue(t, k).values]

\* s without its first element equal to v
RECURSIVE RemoveFirst(_, _)
RemoveFirst(s, v) ==
  IF s = <<>> THEN <<>>
  ELSE IF Head(s) = v THEN Tail(s)
  ELSE <<Head(s)>> \o RemoveFirst(Tail(s), v)

\* For OA_KVL the history variable "inserted" is kept by the rules of a
\* multimap one call at a time: a call takes the contents it finds (which are
\* "inserted", as long as every call so far did what a multimap does) and
\* leaves in "inserted" what a multimap holds after that call.

\* Insert(key, value)
Insert_OA(key, value) ==
  LET t0 == OATable
      resize == t0.active_entry_count = t0.resize_threshold
      t1 == IF resize THEN OA_Resize(t0) ELSE t0
      p == ProbeForInsert(t1, key)
  IN
  /\ variant = "OA_KVL" /\ fault = "none"
  /\ before' = Snapshot(t0, key)
  /\ UNCHANGED <<Params, CAOnly>>
  /\ IF resize /\ ~ResizeInBounds(t0) THEN
       /\ fault' = "out of bounds"
       /\ ret' = Call("Insert", key, NullRange, FALSE)
       /\ UNCHANGED <<OAOnly, Shared, inserted>>
     ELSE IF resize /\ ~(t1.active_entry_count < t1.resize_threshold) THEN
       /\ fault' = "assert"
       /\ ret' = Call("Insert", key, NullRange, FALSE)
       /\ SetOA(t1)
       /\ UNCHANGED inserted
     ELSE IF p.kind = "diverges" THEN
       /\ fault' = "diverges"
       /\ ret' = Call("Insert", key, NullRange, FALSE)
       /\ SetOA(t1)
       /\ UNCHANGED inserted
     ELSE
       /\ SetOA(InitValue(p, value))
       /\ inserted' = [OA_Contents(t0) EXCEPT ![key] = Append(@, value)]
       /\ ret' = Call("Insert", key, NullRange, TRUE)
       /\ UNCHANGED fault

\* DeleteKey(key)
DeleteKey_OA(key) ==
  LET t == OATable
      entry_p == ProbeForSearch(t, key)
  IN
  /\ variant = "OA_KVL" /\ fault = "none"
  /\ before' = IF ret.op = "Insert" /\ ret.ok /\ ret.key = key
               THEN before ELSE NoSnapshot
  /\ UNCHANGED <<Params, CAOnly>>
  /\ IF ~ProbeInBounds(t, key) THEN
       /\ fault' = "out of bounds"
       /\ ret' = Call("DeleteKey", key, NullRange, FALSE)
       /\ UNCHANGED <<OAOnly, Shared, inserted>>
     ELSE IF entry_p = Diverges THEN
       /\ fault' = "diverges"
       /\ ret' = Call("DeleteKey", key, NullRange, FALSE)
       /\ UNCHANGED <<OAOnly, Shared, inserted>>
     ELSE IF entry_p = NoEntry THEN
       /\ ret' = Call("DeleteKey", key, NullRange, FALSE)
       /\ inserted' = OA_Contents(t)
       /\ UNCHANGED <<OAOnly, Shared, fault>>
     ELSE
       /\ SetOA(DeleteEntry(t, entry_p))
       /\ inserted' = [OA_Contents(t) EXCEPT ![key] = <<>>]
       /\ ret' = Call("DeleteKey", key, NullRange, TRUE)
       /\ UNCHANGED fault

\* GetValue(key)
GetValue_OA(key) ==
  LET r == OA_GetValue(OATable, key) IN
  /\ variant = "OA_KVL" /\ fault = "none"
  /\ before' = NoSnapshot
  /\ UNCHANGED <<Params, CAOnly, OAOnly, Shared>>
  /\ IF ~ProbeInBounds(OATable, key) THEN
       /\ fault' = "out of bounds"
       /\ ret' = Call("GetValue", key, NullRange, FALSE)
       /\ UNCHANGED inserted
     ELSE
       /\ ret' = Call("GetValue", key, r, r.kind # "diverges")
       /\ fault' = IF r.kind = "diverges" THEN "diverges" ELSE fault
       /\ inserted' = IF r.kind = "diverges" THEN inserted
                      ELSE OA_Contents(OATable)

\* GetFirstValue(key)
GetFirstValue_OA(key) ==
  LET r == OA_GetFirstValue(OATable, key) IN
  /\ variant = "OA_KVL" /\ fault = "none"
  /\ before' = NoSnapshot
  /\ UNCHANGED <<Params, CAOnly, OAOnly, Shared>>
  /\ IF ~ProbeInBounds(OATable, key) THEN
       /\ fault' = "out of bounds"
       /\ ret' = Call("GetFirstValue", key, NullRange, FALSE)
       /\ UNCHANGED inserted
     ELSE
       /\ ret' = Call("GetFirstValue", key, r, r.kind # "diverges")
       /\ fault' = IF r.kind = "diverges" THEN "diverges" ELSE fault
       /\ inserted' = IF r.kind = "diverges" THEN inserted
                      ELSE OA_Contents(OATable)

\* Delete(it), it an iterator that points at a stored value
Delete_OA(it) ==
  LET t == OATable
      key == t.entry_list_p[it.entry].key
      rest == RemoveFirst(OA_Contents(t)[key], Deref(t, it))
  IN
  /\ variant = "OA_KVL" /\ fault = "none"
  /\ before' = NoSnapshot
  /\ it \in Iterators(t)
  /\ SetOA(OA_Delete(t, it))
  /\ inserted' = [OA_Contents(t) EXCEPT ![key] = rest]
  /\ ret' = Call("Delete", key,
                 [kind |-> "iterator", at |-> it.entry, count |-> it.remaining,
                  values |-> <<>>], TRUE)
  /\ UNCHANGED <<Params, CAOnly, fault>>

\* for(it = Begin(); it != End(); it++), the loop of the tests
Iterate_OA ==
  LET visited == Iterate(OATable) IN
  /\ variant = "OA_KVL" /\ fault = "none"
  /\ before' = NoSnapshot
  /\ ret' = Call("Iterate", RAW,
                 [kind |-> "visited", at |-> 0, count |-> Len(visited),
                  values |-> visited], TRUE)
  /\ inserted' = OA_Contents(OATable)
  /\ UNCHANGED <<Params, CAOnly, OAOnly, Shared, fault>>

\* What a caller holds in an iterator, or in a pair of them
Iterators2(first, second) ==
  [kind |-> "iterator", at |-> first.entry_p, count |-> first.remaining,
   values |-> <<first, second>>]

\* Begin(key)
Begin_OA(key) ==
  LET t == OATable
      entry_p == ProbeForSearch(t, key)
      it == BeginKey(t, key)
  IN
  /\ variant = "OA_KVL" /\ fault = "none"
  /\ before' = NoSnapshot
  /\ UNCHANGED <<Params, CAOnly, OAOnly, Shared>>
  /\ IF ~ProbeInBounds(t, key) THEN
       /\ fault' = "out of bounds"
       /\ ret' = Call("Begin", key, NullRange, FALSE)
       /\ UNCHANGED inserted
     ELSE IF entry_p = Diverges THEN
       /\ fault' = "diverges"
       /\ ret' = Call("Begin", key, NullRange, FALSE)
       /\ UNCHANGED inserted
     ELSE
       /\ ret' = Call("Begin", key, Iterators2(it, it), TRUE)
       /\ inserted' = OA_Contents(t)
       /\ UNCHANGED fault

\* KeyRange(key)
KeyRange_OA(key) ==
  LET t == OATable
      entry_p == ProbeForSearch(t, key)
      range == KeyRange(t, key)
  IN
  /\ variant = "OA_KVL" /\ fault = "none"
  /\ before' = NoSnapshot
  /\ UNCHANGED <<Params, CAOnly, OAOnly, Shared>>
  /\ IF ~ProbeInBounds(t, key) THEN
       /\ fault' = "out of bounds"
       /\ ret' = Call("KeyRange", key, NullRange, FALSE)
       /\ UNCHANGED inserted
     ELSE IF entry_p = Diverges THEN
       /\ fault' = "diverges"
       /\ ret' = Call("KeyRange", key, NullRange, FALSE)
       /\ UNCHANGED inserted
     ELSE
       /\ ret' = Call("KeyRange", key, Iterators2(range[1], range[2]), TRUE)
       /\ inserted' = OA_Contents(t)
       /\ UNCHANGED fault

\* GetMaxSearchProbeLength() and GetMeanSearchProbeLength()
Statistics_OA ==
  LET t == OATable IN
  /\ variant = "OA_KVL" /\ fault = "none"
  /\ before' = NoSnapshot
  /\ ret' = Call("GetSearchProbeLength", RAW,
                 [kind |-> "statistics", at |-> 0,
                  count |-> GetMaxSearchProbeLength(t),
                  values |-> GetMeanSearchProbeLength(t)], TRUE)
  /\ UNCHANGED <<Params, CAOnly, OAOnly, Shared, inserted, fault>>

(***************************************************************************)
(* HashTable_CA_SCC: the calls                                             *)
(***************************************************************************)
\* For the closed addressing tables, which delete nothing, "inserted" holds
\* per key the values Insert() was called with, in the order of the calls.

\* A resize keeps the slot array within the bounds
CA_ResizeInBounds == 2 * slot_count <= MaxSlotCount

\* Insert(key, value)
Insert_SCC(key, value) ==
  LET t0 == CATable
      resize == t0.entry_count = t0.resize_threshold
      t1 == IF resize THEN SCC_Resize(t0) ELSE t0
  IN
  /\ variant = "CA_SCC" /\ fault = "none"
  /\ UNCHANGED before
  /\ UNCHANGED <<Params, OAOnly>>
  /\ IF resize /\ ~(t1.entry_count < t1.resize_threshold) THEN
       /\ fault' = "assert"
       /\ ret' = Call("Insert", key, NullRange, FALSE)
       /\ SetCA(t1)
       /\ UNCHANGED inserted
     ELSE
       /\ SetCA(SCC_Link(t1, key, value))
       /\ inserted' = [inserted EXCEPT ![key] = Append(@, value)]
       /\ ret' = Call("Insert", key, NullRange, TRUE)
       /\ UNCHANGED fault

\* Faulty variant of GetValue(): it resizes a table that is at its threshold
GetValue_SCC_Resizing(key) ==
  LET t0 == CATable
      t1 == IF t0.entry_count = t0.resize_threshold /\ CA_ResizeInBounds
            THEN SCC_Resize(t0) ELSE t0
  IN
  /\ variant = "CA_SCC" /\ fault = "none"
  /\ UNCHANGED before
  /\ ret' = Call("GetValue", key, SCC_GetValue(t1, key), TRUE)
  /\ SetCA(t1)
  /\ UNCHANGED <<Params, OAOnly, inserted, fault>>

\* GetValue(key, &value_list), value_list empty before the call
GetValue_SCC(key) ==
  /\ variant = "CA_SCC" /\ fault = "none"
  /\ UNCHANGED before
  /\ ret' = Call("GetValue", key, SCC_GetValue(CATable, key), TRUE)
  /\ UNCHANGED <<Params, OAOnly, CAOnly, Shared, inserted, fault>>

(***************************************************************************)
(* HashTable_CA_CC: the calls                                              *)
(***************************************************************************)
\* Insert(key, value)
Insert_CC(key, value) ==
  LET t0 == CATable
      resize == t0.entry_count = t0.resize_threshold
      r1 == IF resize THEN CC_Resize(t0) ELSE [t |-> t0, end |-> "none"]
      r2 == CC_Link(r1.t, key, value)
  IN
  /\ variant = "CA_CC" /\ fault = "none"
  /\ UNCHANGED before
  /\ UNCHANGED <<Params, OAOnly>>
  /\ IF r1.end # "none" THEN
       /\ fault' = r1.end
       /\ ret' = Call("Insert", key, NullRange, FALSE)
       /\ SetCA(r1.t)
       /\ UNCHANGED inserted
     ELSE IF resize /\ ~(r1.t.entry_count < r1.t.resize_threshold) THEN
       /\ fault' = "assert"
       /\ ret' = Call("Insert", key, NullRange, FALSE)
       /\ SetCA(r1.t)
       /\ UNCHANGED inserted
     ELSE IF ~r2.ok THEN
       /\ fault' = "assert InsertIntoSlot"
       /\ ret' = Call("Insert", key, NullRange, FALSE)
       /\ SetCA(r2.t)
       /\ UNCHANGED inserted
     ELSE
       /\ SetCA(r2.t)
       /\ inserted' = [inserted EXCEPT ![key] = Append(@, value)]
       /\ ret' = Call("Insert", key, NullRange, TRUE)
       /\ UNCHANGED fault

\* GetValue(key, &value_list), value_list empty before the call
GetValue_CC(key) ==
  LET r == CC_GetValue(CATable, key) IN
  /\ variant = "CA_CC" /\ fault = "none"
  /\ UNCHANGED before
  /\ ret' = Call("GetValue", key, r, r.kind = "vector")
  /\ fault' = IF r.kind = "vector" THEN fault ELSE r.kind
  /\ UNCHANGED <<Params, OAOnly, CAOnly, Shared, inserted>>

(***************************************************************************)
(* The callers                                                             *)
(***************************************************************************)
\* Insert() on OA_KVL is offered while the table stays within the bounds
OA_InBounds(key) ==
  LET t == OATable
      resize == t.active_entry_count = t.resize_threshold
      entry_p == ProbeForSearch(t, key)
  IN /\ TotalValues(t) < MaxTotalValues
     /\ resize => 2 * t.entry_count <= MaxEntryCount
     /\ IF ~ProbeInBounds(t, key) THEN TRUE
        ELSE IF entry_p < 0 THEN TRUE
        ELSE IF HasKeyValueList(t.entry_list_p[entry_p]) THEN TRUE
        ELSE NumAllocated(t.kvl) < MaxLists

\* Insert() on a closed addressing table is offered while it stays within
\* the bounds
CA_InBounds ==
  /\ Len(nodes) < MaxEntries
  /\ entry_count = resize_threshold => CA_ResizeInBounds

\* Any caller of one table
Next ==
  \/ \E k \in keys :
       /\ variant = "OA_KVL" /\ OA_InBounds(k)
       /\ Insert_OA(k, NextValue(k, OA_Contents(OATable)[k]))
  \/ \E k \in keys : DeleteKey_OA(k)
  \/ \E k \in keys : GetValue_OA(k)
  \/ \E k \in keys : GetFirstValue_OA(k)
  \/ \E it \in [entry : 0 .. (MaxEntryCount - 1), remaining : 1 .. MaxTotalValues] :
       Delete_OA(it)
  \/ Iterate_OA
  \/ \E k \in keys : Begin_OA(k)
  \/ \E k \in keys : KeyRange_OA(k)
  \/ Statistics_OA
  \/ \E k \in keys :
       CA_InBounds /\ Insert_SCC(k, NextValue(k, inserted[k]))
  \/ \E k \in keys : GetValue_SCC(k)
  \/ \E k \in keys :
       CA_InBounds /\ Insert_CC(k, NextValue(k, inserted[k]))
  \/ \E k \in keys : GetValue_CC(k)

Spec == Init /\ [][Next]_vars

(***************************************************************************)
(* A caller that churns: one key at a time is inserted and deleted again,  *)
(* every key a new one.  The table is a 32 entry OA_KVL table with         *)
(* std::hash and LoadFactorHalfFull; it never holds more than MaxLive keys *)
(* and so never resizes.                                                   *)
(***************************************************************************)
\* Key has no valid entry in the OA_KVL array
Absent(key) ==
  \A i \in Slots(OATable) :
    ~(IsValidEntry(entry_list_p[i]) /\ entry_list_p[i].key = key)

ChurnKeys == 0 .. (GetInitEntryCount(0) - 1)

InitChurn ==
  /\ keys = ChurnKeys
  /\ key_hash_obj = "StdHash"
  /\ lfc = [kind |-> "HalfFull", percentage |-> 0]
  /\ History
  /\ OA_Init(0)

\* The next key of the churn: the lowest one whose slot was never used
ChurnOffers(key) ==
  /\ NumValid(OATable) < MaxLive
  /\ IsFree(entry_list_p[key])
  /\ \A k \in keys : k < key => ~IsFree(entry_list_p[k])

\* The keys the churn calls DeleteKey, GetValue, GetFirstValue, Begin and
\* KeyRange with: its first key and the keys the table holds
ChurnCalls == {k \in keys : k = 0 \/ ~Absent(k)}

NextChurn ==
  \/ \E k \in keys : ChurnOffers(k) /\ Insert_OA(k, NextValue(k, <<>>))
  \/ \E k \in ChurnCalls : DeleteKey_OA(k)
  \/ \E k \in ChurnCalls : GetValue_OA(k)
  \/ \E k \in ChurnCalls : GetFirstValue_OA(k)
  \/ \E k \in ChurnCalls : Begin_OA(k)
  \/ \E k \in ChurnCalls : KeyRange_OA(k)

SpecChurn == InitChurn /\ [][NextChurn]_vars

(***************************************************************************)
(* A caller that asks the OA_KVL constructor for 2^31 or 2^32 entries: the  *)
(* one that SetSizeAndMask() shifts is an int, and the shift count reaches  *)
(* the width of int.                                                       *)
(***************************************************************************)
\* The one bits of the sizes requested
HugeRequestBits == {IntBits - 1, IntBits}

\* Calculators the table is instantiated with
HugePolicies == {l \in Policies : l.kind # "Percent"}

InitHuge ==
  /\ keys = OA_Keys
  /\ key_hash_obj = "StdHash"
  /\ lfc \in HugePolicies
  /\ History
  /\ \E one_bit \in HugeRequestBits : OA_InitHuge(one_bit)

NextHuge ==
  \/ \E k \in keys :
       /\ OA_InBounds(k)
       /\ Insert_OA(k, NextValue(k, OA_Contents(OATable)[k]))
  \/ \E k \in keys : DeleteKey_OA(k)
  \/ \E k \in keys : GetValue_OA(k)
  \/ \E k \in keys : GetFirstValue_OA(k)
  \/ \E it \in [entry : 0 .. (MaxEntryCount - 1),
                 remaining : 1 .. MaxTotalValues] :
       Delete_OA(it)

SpecHuge == InitHuge /\ [][NextHuge]_vars

(***************************************************************************)
(* A caller that only fills: a 32 entry OA_KVL table with std::hash is     *)
(* given up to MaxFill values for each of its keys and nothing is deleted, *)
(* so the key value lists grow through several capacities.                 *)
(***************************************************************************)
InitFill ==
  /\ keys = OA_Keys
  /\ key_hash_obj = "StdHash"
  /\ lfc \in HugePolicies
  /\ History
  /\ OA_Init(0)

NextFill ==
  \/ \E k \in keys :
       /\ Len(OA_Contents(OATable)[k]) < MaxFill
       /\ Insert_OA(k, NextValue(k, OA_Contents(OATable)[k]))
  \/ \E k \in keys : GetValue_OA(k)
  \/ Iterate_OA

SpecFill == InitFill /\ [][NextFill]_vars

(***************************************************************************)
(* A caller that fills and drains one key of a 32 entry OA_KVL table with  *)
(* std::hash and LoadFactorPercent<7>: its list gets full, grows, and      *)
(* loses values at every place.  The other keys get one value at a time   *)
(* and while that key is held, so the table resizes when it holds two keys.*)
(***************************************************************************)
\* The key that is filled and drained
DrainKey == CHOOSE k \in OA_Keys : \A other \in OA_Keys : k <= other

InitDrain ==
  /\ keys = OA_Keys
  /\ key_hash_obj = "StdHash"
  /\ lfc = [kind |-> "Percent", percentage |-> 7]
  /\ History
  /\ OA_Init(0)

NextDrain ==
  \/ \E k \in keys :
       /\ TotalValues(OATable) < MaxDrain
       /\ k # DrainKey => (Absent(k) /\ ~Absent(DrainKey))
       /\ active_entry_count = resize_threshold =>
            2 * entry_count <= MaxEntryCount
       /\ Insert_OA(k, NextValue(k, OA_Contents(OATable)[k]))
  \/ \E it \in Iterators(OATable) : Delete_OA(it)
  \/ \E k \in keys : DeleteKey_OA(k)
  \/ GetValue_OA(DrainKey)
  \/ KeyRange_OA(DrainKey)
  \/ Iterate_OA

SpecDrain == InitDrain /\ [][NextDrain]_vars

(***************************************************************************)
(* A caller that makes a small table resize: a 32 entry OA_KVL table with  *)
(* std::hash and LoadFactorPercent<7> resizes when it holds two keys.      *)
(***************************************************************************)
\* Its keys.  With std::hash 2 and 66 share entry 2 of a 32 entry and of a
\* 64 entry array; 1 has an entry of its own.
RehashKeys == {1, 2, 66}

InitRehash ==
  /\ keys = RehashKeys
  /\ key_hash_obj = "StdHash"
  /\ lfc = [kind |-> "Percent", percentage |-> 7]
  /\ History
  /\ OA_Init(0)

NextRehash ==
  \/ \E k \in keys :
       /\ OA_InBounds(k)
       /\ Insert_OA(k, NextValue(k, OA_Contents(OATable)[k]))
  \/ \E k \in keys : DeleteKey_OA(k)
  \/ \E k \in keys : GetValue_OA(k)

SpecRehash == InitRehash /\ [][NextRehash]_vars

(***************************************************************************)
(* Properties                                                              *)
(***************************************************************************)
\* Number of elements of s equal to v
RECURSIVE Occurrences(_, _)
Occurrences(s, v) ==
  IF s = <<>> THEN 0
  ELSE (IF Head(s) = v THEN 1 ELSE 0) + Occurrences(Tail(s), v)

Range(s) == {s[i] : i \in DOMAIN s}

SameMultiset(s, t) ==
  /\ Len(s) = Len(t)
  /\ \A v \in Range(s) \cup Range(t) : Occurrences(s, v) = Occurrences(t, v)

\* The capacity of the table and the count Insert() compares with the
\* threshold, whatever the class
Capacity == IF variant = "OA_KVL" THEN entry_count ELSE slot_count
Count == IF variant = "OA_KVL" THEN active_entry_count ELSE entry_count

IsPowerOfTwo(n) == \E e \in 0 .. EffectiveBits(n) : n = 2 ^ e

\* C1 (as stated; refuted): OA_KVL, after any calls of Insert, DeleteKey and
\* Delete(it), GetValue(k) returns for every key k a range whose values are,
\* as a multiset, the values inserted for k and not deleted since, and the
\* null pointer with count 0 when there are none.
C1_GetValueReturnsInserted ==
  (variant = "OA_KVL" /\ fault = "none") =>
    \A k \in keys :
      LET r == OA_GetValue(OATable, k) IN
      /\ SameMultiset(r.values, inserted[k])
      /\ r.count = Len(inserted[k])
      /\ inserted[k] = <<>> => r = NullRange

\* C2 (as stated; refuted): OA_KVL, right after DeleteKey(k) GetValue(k)
\* returns count 0 and GetFirstValue(k) returns null.
C2_DeleteKeyThenEmpty ==
  (variant = "OA_KVL" /\ fault = "none" /\ ret.op = "DeleteKey") =>
    /\ OA_GetValue(OATable, ret.key).count = 0
    /\ OA_GetFirstValue(OATable, ret.key) = NullRange

\* C3 (as stated; refuted): CA_CC, after any calls of Insert GetValue(k, out)
\* terminates and appends to out exactly the multiset of the values inserted
\* for k.
C3_CC_GetValueReturnsInserted ==
  (variant = "CA_CC" /\ ret.op = "GetValue") =>
    /\ fault = "none"
    /\ ret.ok
    /\ SameMultiset(ret.range.values, inserted[ret.key])

\* C4: CA_SCC, after any calls of Insert (resizes included) GetValue(k, out)
\* appends to out exactly the multiset of the values inserted for k; a key
\* inserted once yields its one value.
C4_SCC_GetValueReturnsInserted ==
  (variant = "CA_SCC" /\ ret.op = "GetValue") =>
    /\ fault = "none"
    /\ ret.ok
    /\ SameMultiset(ret.range.values, inserted[ret.key])
    /\ ret.range.count = Len(inserted[ret.key])

\* C4 witness: GetValue() returned two or more values of a key from a table
\* that holds another key too and has grown beyond every constructed size
C4_Witness ==
  /\ variant = "CA_SCC" /\ ret.op = "GetValue"
  /\ ret.range.count >= 2
  /\ ret.range.count < Len(nodes)
  /\ \A sm \in CA_RoundUp(MaxRequest) : slot_count > sm[1]

\* C5 (as stated; refuted): OA_KVL, a key that received v1..vn through Insert
\* with no deletion of the key in between yields count n and v1..vn in the
\* order of insertion.
C5_InsertionOrder ==
  (variant = "OA_KVL" /\ fault = "none" /\ ret.op = "Insert") =>
    LET r == OA_GetValue(OATable, ret.key) IN
    /\ r.count = Len(inserted[ret.key])
    /\ r.values = inserted[ret.key]

\* One step of a caller seen by C6: the call just made is ret'
C6_Step ==
  /\ (ret'.op \in {"GetValue", "GetFirstValue", "DeleteKey"}
        /\ Absent(ret'.key)) =>
       /\ fault' = "none"
       /\ ret'.range = NullRange
       /\ ret'.op = "DeleteKey" => ~ret'.ok
       /\ UNCHANGED <<entry_list_p, kvl, active_entry_count, entry_count,
                      index_mask, resize_threshold>>
  /\ (ret'.op = "DeleteKey" /\ ~Absent(ret'.key)) => ret'.ok

\* C6 (as stated; refuted): OA_KVL, for a key that has no valid entry
\* GetValue returns (null, 0), GetFirstValue returns null and DeleteKey
\* returns false, and none of them changes a slot, active_entry_count, the
\* capacity or resize_threshold; for a key that has a valid entry DeleteKey
\* returns true.
C6_AbsentKeyOutcomes == [][variant = "OA_KVL" => C6_Step]_vars

\* C7 (as stated; refuted): OA_KVL with a load factor below 100%, in every
\* state at least one real slot is FREE and no probe goes on for ever.
C7_AlwaysAFreeSlot ==
  variant = "OA_KVL" =>
    /\ \E i \in Slots(OATable) : IsFree(entry_list_p[i])
    /\ fault # "diverges"

\* One Insert() seen by C8: it resized iff the capacity changed
C8_Step ==
  LET resized == Capacity' # Capacity IN
  /\ resized <=> Count = resize_threshold
  /\ resized => /\ Capacity' = 2 * Capacity
                /\ resize_threshold' = LoadFactor(Capacity')
  /\ ~resized => resize_threshold' = resize_threshold

\* C8: in all three classes Insert resizes exactly when the count equals
\* resize_threshold on entry; a resize doubles the capacity and sets
\* resize_threshold to the load factor calculator's value for the new
\* capacity.
C8_ResizeExactlyAtThreshold == [][ret'.op = "Insert" => C8_Step]_vars

\* C8 witness: an Insert() that was entered at the threshold of the smaller
\* OA_KVL array has returned
C8_Witness ==
  /\ variant = "OA_KVL" /\ ret.op = "Insert" /\ ret.ok
  /\ entry_count = 2 * MINIMUM_ENTRY_COUNT
  /\ active_entry_count = LoadFactor(MINIMUM_ENTRY_COUNT) + 1

\* C9 (as stated; refuted): in all three classes, right after a Resize that
\* Insert triggered the count is below the new resize_threshold, for every
\* load factor calculator.
C9_BelowThresholdAfterResize ==
  [][(ret'.op = "Insert" /\ Capacity' # Capacity) =>
       Count < resize_threshold']_vars

\* C10 (as stated; refuted): in all three classes, in every state, whatever
\* capacity of 1 or more was requested, the capacity is a power of two,
\* index_mask is the capacity less one, and hash & index_mask is below the
\* capacity for every key.
C10_CapacityPowerOfTwo ==
  /\ IsPowerOfTwo(Capacity)
  /\ index_mask = Capacity - 1
  /\ \A k \in keys : BitAnd(Hash(k), index_mask) < Capacity

\* The values an entry holds, in the order they are stored
EntryValues(t, e) ==
  IF ~IsValidEntry(e) THEN <<>>
  ELSE IF HasKeyValueList(e)
  THEN SubSeq(t.kvl[e.status].data, 1, t.kvl[e.status].size)
  ELSE <<e.value>>

\* The <<key, value>> pairs the first n entries of the array hold, entry by
\* entry
RECURSIVE StoredPairs(_, _)
StoredPairs(t, n) ==
  IF n = 0 THEN <<>>
  ELSE LET e == t.entry_list_p[n - 1]
           values == EntryValues(t, e)
       IN StoredPairs(t, n - 1)
            \o [i \in 1 .. Len(values) |-> <<e.key, values[i]>>]

\* C11: OA_KVL, advancing an iterator from Begin() until it equals End()
\* terminates and visits every stored (key, value) pair exactly once, entry
\* by entry and within an entry in stored order, in as many steps as there
\* are stored values; when no key is stored Begin() == End().
C11_IterationVisitsAll ==
  (variant = "OA_KVL" /\ fault = "none") =>
    /\ ret.op = "Iterate" =>
         /\ ret.range.values = StoredPairs(OATable, entry_count)
         /\ ret.range.count = TotalValues(OATable)
    /\ NumValid(OATable) = 0 => IteratorEq(Begin(OATable), End(OATable))

\* C11 witness: an iteration has visited MaxTotalValues values of two
\* entries, one of them a key value list, and has skipped a DELETED entry
\* that lies before a valid one
C11_Witness ==
  /\ variant = "OA_KVL" /\ ret.op = "Iterate"
  /\ ret.range.count = MaxTotalValues
  /\ NumValid(OATable) = 2
  /\ \E i \in Slots(OATable) : HasKeyValueList(entry_list_p[i])
  /\ \E i, j \in Slots(OATable) :
       i < j /\ IsDeleted(entry_list_p[i]) /\ IsValidEntry(entry_list_p[j])

\* s without its element number n
RemoveAt(s, n) == SubSeq(s, 1, n - 1) \o SubSeq(s, n + 1, Len(s))

\* One Delete(it) seen by C12: ret' names the iterator, the unprimed
\* variables are the table it was called on
C12_Step ==
  LET i == ret'.range.at
      remaining == ret'.range.count
      e == entry_list_p[i]
      values == EntryValues(OATable, e)
      whole == ~HasKeyValueList(e) \/ Len(values) = 1
  IN
  /\ fault' = "none"
  /\ IF whole THEN
       /\ IsDeleted(entry_list_p'[i])
       /\ active_entry_count' = active_entry_count - 1
     ELSE
       /\ entry_list_p'[i] = e
       /\ kvl'[e.status].size = kvl[e.status].size - 1
       /\ EntryValues(OATable', entry_list_p'[i])
            = RemoveAt(values, Len(values) - remaining + 1)
       /\ active_entry_count' = active_entry_count
  /\ \A j \in Slots(OATable) \ {i} :
       /\ entry_list_p'[j] = entry_list_p[j]
       /\ EntryValues(OATable', entry_list_p'[j])
            = EntryValues(OATable, entry_list_p[j])
  /\ \A k \in keys \ {e.key} : OA_GetValue(OATable', k) = OA_GetValue(OATable, k)

\* C12: OA_KVL, Delete(it) for an iterator on a stored value removes that one
\* value: an entry with an inline value or a list of one element becomes
\* DELETED and active_entry_count drops by one; otherwise the list loses the
\* element, the others keep their order and active_entry_count stays; the
\* values of every other key are unchanged.
C12_DeleteRemovesOneValue ==
  [][(variant = "OA_KVL" /\ ret'.op = "Delete") => C12_Step]_vars

\* C12 witness: Delete(it) has removed a value that was not the last of a
\* list, and the list lives on
C12_Witness ==
  /\ variant = "OA_KVL" /\ ret.op = "Delete"
  /\ ret.range.count >= 2
  /\ HasKeyValueList(entry_list_p[ret.range.at])
  /\ kvl[entry_list_p[ret.range.at].status].size = 2

\* DeleteKey(k) that follows a returned Insert(k, v): ret is the Insert,
\* ret' the DeleteKey, "before" what the Insert found
C13_IsRoundTrip ==
  /\ variant = "OA_KVL"
  /\ ret.op = "Insert" /\ ret.ok
  /\ ret'.op = "DeleteKey" /\ ret'.key = ret.key

C14_ChainHoldsEveryNode ==
  (variant = "CA_CC" /\ fault = "none") =>
    LET w == CC_Destructor(CATable) IN
    /\ w.end = "none"
    /\ Len(w.deleted) = entry_count
    /\ \A e \in 1 .. Len(nodes) : Occurrences(w.deleted, e) = 1

\* The slot an entry of the chain belongs to
C15_Slot(e) == BitAnd(nodes[e].hash_value, index_mask)

\* The nodes on the global chain that share a slot follow one another
C15_ChainIsGrouped ==
  (variant = "CA_CC" /\ fault = "none") =>
    LET chain == CC_Destructor(CATable).deleted IN
    \A a, c \in 1 .. Len(chain) :
      (a < c /\ C15_Slot(chain[a]) = C15_Slot(chain[c])) =>
        \A b \in a .. c : C15_Slot(chain[b]) = C15_Slot(chain[a])

C16_Fresh(sm) ==
  [OATable EXCEPT !.entry_list_p = GetHashEntryListStatic(sm[1]),
                  !.kvl = [a \in KVLAddrs |-> NoKVL],
                  !.index_mask = sm[2],
                  !.active_entry_count = 0,
                  !.entry_count = sm[1],
                  !.resize_threshold = LoadFactor(sm[1])]

\* Insert of every pair of "pairs", in order, into table r.t
RECURSIVE C16_InsertAll(_, _)
C16_InsertAll(r, pairs) ==
  IF pairs = <<>> \/ r.end # "none" THEN r
  ELSE C16_InsertAll(OA_Insert(r.t, Head(pairs)[1], Head(pairs)[2]),
                     Tail(pairs))

\* C16: OA_KVL, iterating from Begin() to End() and inserting each visited
\* pair into a fresh table yields a table in which GetValue of every key
\* returns the same count and the same values in the same order.
C16_RebuildEquivalence ==
  (variant = "OA_KVL" /\ fault = "none") =>
    \A sm \in SetSizeAndMask(GetInitEntryCount(0)) :
      LET rebuilt == C16_InsertAll([t |-> C16_Fresh(sm), end |-> "none"],
                                   Iterate(OATable))
      IN /\ rebuilt.end = "none"
         /\ \A k \in keys :
              OA_GetValue(rebuilt.t, k).values = OA_GetValue(OATable, k).values

\* The calls that look up or query
C17_Lookups ==
  {"GetValue", "GetFirstValue", "Begin", "KeyRange", "Iterate",
   "GetSearchProbeLength"}

RECURSIVE AdvanceTimes(_, _, _)
AdvanceTimes(t, it, n) ==
  IF n = 0 THEN it ELSE AdvanceTimes(t, Advance(t, it), n - 1)

\* What C18 says of one key
C18_OfKey(k) ==
  LET t == OATable
      entry_p == ProbeForSearch(t, k)
      r == OA_GetValue(t, k)
      n == r.count
      begin == BeginKey(t, k)
      range == KeyRange(t, k)
  IN /\ entry_p # Diverges
     /\ IF Absent(k) THEN
          /\ IteratorEq(begin, End(t))
          /\ IteratorEq(range[1], End(t)) /\ IteratorEq(range[2], End(t))
        ELSE
          /\ n >= 1
          /\ begin.remaining = n
          /\ Star(t, begin) = r.values[1]
          /\ IteratorEq(AdvanceTimes(t, range[1], n - 1), range[2])
          /\ [i \in 1 .. n |-> Star(t, AdvanceTimes(t, range[1], i - 1))]
               = r.values

\* C18: OA_KVL, for a key that is absent Begin(k) equals End() and KeyRange(k)
\* is (End(), End()); for a key with n values Begin(k) is on the first value
\* with n remaining, KeyRange(k).first advanced n - 1 times equals
\* KeyRange(k).second, and the values dereferenced on the way are those of
\* GetValue(k), in order.
C18_PerKeyIteration ==
  (variant = "OA_KVL" /\ fault = "none") => \A k \in keys : C18_OfKey(k)

\* p is the smallest power of two that is at least n
IsSmallestPowerOfTwoAtLeast(p, n) ==
  /\ p > 0 /\ IsPowerOfTwo(p)
  /\ p >= n
  /\ p = 1 \/ p \div 2 < n

\* The size the OA_KVL constructor is to reach for a requested size
C19_AtLeast(requested) ==
  LET page == PAGE_SIZE \div SizeofHashEntry
      floor == IF page > MINIMUM_ENTRY_COUNT THEN page ELSE MINIMUM_ENTRY_COUNT
  IN IF requested > floor THEN requested ELSE floor

\* C19: OA_KVL, for any requested size r >= 0 the constructor leaves a
\* capacity that is the smallest power of two at least max(r, 32,
\* 4096 / sizeof(entry)), index_mask = capacity - 1, resize_threshold =
\* lfc(capacity) and active_entry_count = 0.  (For r = 2^one_bit the smallest
\* such power of two is r: a power of two of more than one_bit bits.)
C19_Constructor ==
  (variant = "OA_KVL" /\ ret.op = "constructor") =>
    /\ active_entry_count = 0
    /\ index_mask = entry_count - 1
    /\ resize_threshold = LoadFactor(entry_count)
    /\ IF ret.range.kind = "one bit"
       THEN /\ entry_count > 0 /\ IsPowerOfTwo(entry_count)
            /\ EffectiveBits(entry_count) > ret.key
       ELSE IsSmallestPowerOfTwoAtLeast(entry_count, C19_AtLeast(ret.key))

\* C20: CA_CC and CA_SCC, for any requested slot count r >= 1 the constructor
\* leaves a slot count that is the smallest power of two at least r (a power
\* of two is kept as it is), index_mask = slot_count - 1 and resize_threshold =
\* lfc(slot_count).
C20_Constructor ==
  (variant \in {"CA_CC", "CA_SCC"} /\ ret.op = "constructor") =>
    /\ IsSmallestPowerOfTwoAtLeast(slot_count, ret.key)
    /\ index_mask = slot_count - 1
    /\ resize_threshold = LoadFactor(slot_count)
    /\ entry_count = 0

\* The entries a linear probe passes from entry "from" before it is on entry
\* "to", wrapping at the capacity
ProbePath(from, to) ==
  IF from <= to THEN from .. (to - 1)
  ELSE (from .. (entry_count - 1)) \cup (0 .. (to - 1))

\* C21: OA_KVL, in every reachable state, for every valid entry i with key k
\* the linear probe from hash(k) & index_mask, wrapping at the capacity, meets
\* no FREE entry before it reaches entry i.
C21_ProbePathHasNoFree ==
  (variant = "OA_KVL" /\ fault # "out of bounds") =>
    \A i \in Slots(OATable) :
      IsValidEntry(entry_list_p[i]) =>
        \A j \in ProbePath(BitAnd(Hash(entry_list_p[i].key), index_mask), i) :
          ~IsFree(entry_list_p[j])

\* C21 witness: a valid entry sits behind the wrap of its probe path, and a
\* DELETED entry is on that path
C21_Witness ==
  /\ variant = "OA_KVL" /\ fault = "none"
  /\ \E i \in Slots(OATable) :
       LET from == BitAnd(Hash(entry_list_p[i].key), index_mask) IN
       /\ IsValidEntry(entry_list_p[i])
       /\ from > i
       /\ \E j \in ProbePath(from, i) : IsDeleted(entry_list_p[j])

\* The number of valid entries of the array that hold key
C22_Held(t, key) == Snapshot(t, key).held

\* One call seen by C22: ret' is the call, the unprimed variables the table
\* it was made on
C22_Step ==
  LET grown == active_entry_count' = active_entry_count + 1
      same == active_entry_count' = active_entry_count
      shrunk == active_entry_count' = active_entry_count - 1
      key == ret'.key
  IN
  /\ active_entry_count' = NumValid(OATable')
  /\ grown \/ same \/ shrunk
  /\ grown => ret'.op = "Insert"
  /\ shrunk => ret'.op \in {"DeleteKey", "Delete"}
  /\ (ret'.op = "Insert" /\ ret'.ok) =>
       /\ TotalValues(OATable') = TotalValues(OATable) + 1
       /\ IF C22_Held(OATable', key) = C22_Held(OATable, key) THEN same
          ELSE grown /\ C22_Held(OATable', key) = C22_Held(OATable, key) + 1
  /\ ret'.op = "Delete" =>
       /\ TotalValues(OATable') = TotalValues(OATable) - 1
       /\ IF IsValidEntry(entry_list_p'[ret'.range.at]) THEN same
          ELSE shrunk /\ IsDeleted(entry_list_p'[ret'.range.at])
  /\ (ret'.op = "DeleteKey" /\ ret'.ok) =>
       shrunk /\ C22_Held(OATable', key) = C22_Held(OATable, key) - 1

C23_KeyUniqueness ==
  (variant = "OA_KVL" /\ fault = "none") =>
    \A i, j \in Slots(OATable) :
      (/\ IsValidEntry(entry_list_p[i]) /\ IsValidEntry(entry_list_p[j])
       /\ entry_list_p[i].key = entry_list_p[j].key) => i = j

\* Capacity of the key value list of a key that was given n >= 2 values and
\* had none deleted: KVL_INIT_VALUE_COUNT, doubled at the fifth, ninth, ...
RECURSIVE ScheduleCapacity(_)
ScheduleCapacity(n) ==
  IF n <= KVL_INIT_VALUE_COUNT THEN KVL_INIT_VALUE_COUNT
  ELSE 2 * ScheduleCapacity((n + 1) \div 2)

\* C24: OA_KVL, a key given n values by Insert with nothing deleted has one
\* entry; for n = 1 the value is stored INLINE and the entry has no list; for
\* n >= 2 the entry has a list of size n holding the values in order, whose
\* capacity is 4 up to n = 4, 8 from the fifth value and 16 from the ninth
\* (it doubles exactly when a value is inserted into a full list).
C24_StorageSchedule ==
  (variant = "OA_KVL" /\ fault = "none") =>
    \A k \in keys :
      LET n == Len(inserted[k])
          held == {i \in Slots(OATable) :
                     IsValidEntry(entry_list_p[i]) /\ entry_list_p[i].key = k}
      IN IF n = 0 THEN held = {}
         ELSE /\ Cardinality(held) = 1
              /\ \A i \in held :
                   LET e == entry_list_p[i] IN
                   IF n = 1
                   THEN e.status = INLINE_VALUE /\ e.value = inserted[k][1]
                   ELSE /\ HasKeyValueList(e)
                        /\ IsAllocated(kvl, e.status)
                        /\ kvl[e.status].size = n
                        /\ kvl[e.status].capacity = ScheduleCapacity(n)
                        /\ \A j \in 1 .. n :
                             kvl[e.status].data[j] =
                               NextValue(k, SubSeq(inserted[k], 1, j - 1))

\* A key has been given its ninth value, which doubled the list a second time
C24_Witness ==
  /\ variant = "OA_KVL" /\ ret.op = "Insert" /\ ret.ok
  /\ Len(inserted[ret.key]) = 2 * KVL_INIT_VALUE_COUNT + 1
  /\ \E i \in Slots(OATable) :
       /\ IsValidEntry(entry_list_p[i]) /\ entry_list_p[i].key = ret.key
       /\ HasKeyValueList(entry_list_p[i])
       /\ kvl[entry_list_p[i].status].capacity = 4 * KVL_INIT_VALUE_COUNT

\* Every key value list holds size <= capacity values, in data[0 .. size - 1]
C25_Lists ==
  \A a \in KVLAddrs :
    IsAllocated(kvl, a) =>
      /\ kvl[a].size \in 0 .. kvl[a].capacity
      /\ \A i \in 1 .. kvl[a].capacity : (kvl[a].data[i] # RAW) <=> i <= kvl[a].size

\* The places of a list one call writes or reads: Insert writes data[size - 1]
\* of the list it leaves, GetValue hands out data[0 .. size - 1], KeyRange's
\* second iterator is on data[size - 1], the loop over the iterators reads
\* constructed values only and Delete(it) calls DeleteIndex with an index
\* below size
C25_Step ==
  /\ (ret'.op = "Insert" /\ ret'.ok) =>
       \E i \in Slots(OATable') :
         LET e == entry_list_p'[i] IN
         /\ IsValidEntry(e) /\ e.key = ret'.key
         /\ HasKeyValueList(e) =>
              /\ IsAllocated(kvl', e.status)
              /\ kvl'[e.status].size - 1 < kvl'[e.status].capacity
              /\ kvl'[e.status].data[kvl'[e.status].size] =
                   inserted'[ret'.key][Len(inserted'[ret'.key])]
  /\ (ret'.op = "GetValue" /\ ret'.ok /\ ret'.range.kind = "kvl") =>
       /\ IsAllocated(kvl, ret'.range.at)
       /\ ret'.range.count <= kvl[ret'.range.at].capacity
       /\ \A j \in 1 .. ret'.range.count : ret'.range.values[j] # RAW
  /\ (ret'.op = "KeyRange" /\ ret'.ok) =>
       \A j \in 1 .. 2 :
         LET v == ret'.range.values[j].value_p IN
         v.in = "kvl" =>
           IsAllocated(kvl, v.at) /\ v.pos \in 0 .. (kvl[v.at].capacity - 1)
  /\ (ret'.op = "Iterate" /\ ret'.ok) =>
       \A j \in 1 .. ret'.range.count : ret'.range.values[j][2] # RAW
  /\ (ret'.op = "Delete" /\ ret'.ok) =>
       LET e == entry_list_p[ret'.range.at] IN
       (HasKeyValueList(e) /\ kvl[e.status].size > 1) =>
         /\ kvl[e.status].size - ret'.range.count \in 0 .. (kvl[e.status].size - 1)
         /\ kvl[e.status].size - ret'.range.count < kvl[e.status].capacity

\* C25: OA_KVL, every key value list has 0 <= size <= capacity at all times,
\* and every place of a list that Insert writes or that GetValue, an iterator
\* or DeleteIndex reads has an index below the capacity.
C25_ListBounds ==
  [][(variant = "OA_KVL" /\ fault' = "none") =>
       (C25_Lists /\ C25_Lists' /\ C25_Step)]_vars

\* A value has been deleted through an iterator from a list that was full
\* and had grown
C25_Witness ==
  /\ variant = "OA_KVL" /\ ret.op = "Delete" /\ ret.ok
  /\ \E a \in KVLAddrs :
       /\ IsAllocated(kvl, a)
       /\ kvl[a].capacity = 2 * KVL_INIT_VALUE_COUNT
       /\ kvl[a].size = KVL_INIT_VALUE_COUNT

\* The valid entries that have a key value list
C26_WithList ==
  {i \in Slots(OATable) :
     IsValidEntry(entry_list_p[i]) /\ HasKeyValueList(entry_list_p[i])}

\* C26: OA_KVL, in every state reached by Insert, DeleteKey and Delete(it),
\* every entry that has a key value list owns a list of size >= 2 (a single
\* value is always stored INLINE).
C26_ListSizeAtLeastTwo ==
  (variant = "OA_KVL" /\ fault = "none") =>
    \A i \in C26_WithList :
      /\ IsAllocated(kvl, entry_list_p[i].status)
      /\ kvl[entry_list_p[i].status].size >= 2

\* C26 as the code has it: every entry that has a key value list owns a list
\* of size >= 1, and a list of size 1 comes only from Delete(it) on a list of
\* size 2 (Insert makes lists of size 2 and never shortens one).
C26_ListSizeAtLeastOne ==
  [][(variant = "OA_KVL" /\ fault' = "none") =>
       /\ \A i \in C26_WithList' :
            /\ IsAllocated(kvl', entry_list_p'[i].status)
            /\ kvl'[entry_list_p'[i].status].size >= 1
       /\ \A a \in KVLAddrs :
            (/\ IsAllocated(kvl', a) /\ kvl'[a].size = 1
             /\ ~(IsAllocated(kvl, a) /\ kvl[a].size = 1)) =>
              /\ ret'.op = "Delete" /\ ret'.ok
              /\ IsAllocated(kvl, a) /\ kvl[a].size = 2
              /\ entry_list_p[ret'.range.at].status = a]_vars

\* Delete(it) has left a list of size 1 to an entry
C26_Witness ==
  /\ variant = "OA_KVL" /\ ret.op = "Delete" /\ ret.ok
  /\ \E i \in C26_WithList : kvl[entry_list_p[i].status].size = 1

\* What GetValue(k) hands out: the number of values, the values in order and,
\* for a key value list, the list they are in
C27_Got(t, k) ==
  LET r == OA_GetValue(t, k)
  IN [count |-> r.count, values |-> r.values,
      list |-> IF r.kind = "kvl" THEN r.at ELSE nullptr]

\* Resize() of table t leaves to every key what GetValue() returns for it,
\* leaves active_entry_count and the key value lists as they are, and every
\* entry that has a list is moved with its list
C27_Preserved(t) ==
  LET r == OA_Resize(t) IN
  /\ \A k \in keys : C27_Got(r, k) = C27_Got(t, k)
  /\ r.active_entry_count = t.active_entry_count
  /\ r.kvl = t.kvl
  /\ \A i \in Slots(t) :
       (IsValidEntry(t.entry_list_p[i]) /\ HasKeyValueList(t.entry_list_p[i])) =>
         \E j \in Slots(r) :
           /\ r.entry_list_p[j].status = t.entry_list_p[i].status
           /\ r.entry_list_p[j].key = t.entry_list_p[i].key

\* The table is in a state in which Insert() calls Resize()
C27_AtResize ==
  /\ variant = "OA_KVL" /\ fault = "none"
  /\ active_entry_count = resize_threshold
  /\ ResizeInBounds(OATable)
  /\ 2 * entry_count <= MaxEntryCount

\* C27: OA_KVL, Resize() preserves the contents: for every key GetValue()
\* returns the same count and the same values in the same order before and
\* after it, active_entry_count is unchanged, and every key value list is
\* moved to the new entry as the same list.
C27_ResizePreservesContents ==
  C27_AtResize => C27_Preserved(OATable)

\* The same for the tables in which no key has two entries
C27_ResizePreservesUniqueKeys ==
  (C27_AtResize /\ C23_KeyUniqueness) => C27_Preserved(OATable)

\* The entries between from and to on the probe path of table r
C28_Path(r, from, to) ==
  IF from <= to THEN from .. (to - 1)
  ELSE (from .. (r.entry_count - 1)) \cup (0 .. (to - 1))

\* Table r as Resize() has to leave it
C28_Rehashed(r) ==
  /\ \A i \in Slots(r) :
       IsFree(r.entry_list_p[i]) \/ IsValidEntry(r.entry_list_p[i])
  /\ NumValid(r) = r.active_entry_count
  /\ \A i \in Slots(r) :
       IsValidEntry(r.entry_list_p[i]) =>
         \A j \in C28_Path(r, BitAnd(r.entry_list_p[i].hash_value, r.index_mask), i) :
           ~IsFree(r.entry_list_p[j])

\* C28: OA_KVL, immediately after a Resize() every entry of the new array is
\* FREE or valid, whatever number of DELETED entries the old array held, the
\* number of valid entries is active_entry_count, and every rehashed entry
\* is at the first FREE entry linear probing met from its cached hash value
\* & index_mask.
C28_ResizeLeavesNoDeleted ==
  C27_AtResize => C28_Rehashed(OA_Resize(OATable))

\* Insert() is about to call Resize() on a table that holds a DELETED entry
\* and two entries that will probe from the same entry of the new array
C28_Witness ==
  /\ C27_AtResize
  /\ \E i \in Slots(OATable) : IsDeleted(entry_list_p[i])
  /\ \E i, j \in Slots(OATable) :
       /\ i # j
       /\ IsValidEntry(entry_list_p[i]) /\ IsValidEntry(entry_list_p[j])
       /\ BitAnd(entry_list_p[i].hash_value, 2 * entry_count - 1) =
            BitAnd(entry_list_p[j].hash_value, 2 * entry_count - 1)

\* The iterators a caller may hold on the values of the table, and Begin()
C29_Held == {BuildIterator(OATable, i) : i \in {it.entry : it \in Iterators(OATable)}}

\* All the iterators a caller gets from one of them by ++ before End()
RECURSIVE C29_Walk(_, _)
C29_Walk(it, left) ==
  IF left = 0 \/ it.entry_p >= entry_count THEN {it}
  ELSE {it} \cup C29_Walk(Advance(OATable, it), left - 1)

\* C29: OA_KVL, the entry at index entry_count is the sentinel: its status is
\* INLINE_VALUE and it holds no key and no value; it is never probed,
\* inserted into, deleted or counted; an iterator that is advanced stops on a
\* valid entry or on the sentinel, never behind it, and an iterator advanced
\* onto the sentinel equals End().
C29_Sentinel ==
  (variant = "OA_KVL" /\ fault = "none") =>
    /\ entry_list_p[entry_count] =
         [status |-> INLINE_VALUE, hash_value |-> RAW, key |-> RAW, value |-> RAW]
    /\ active_entry_count = Cardinality({i \in Slots(OATable) : IsValidEntry(entry_list_p[i])})
    /\ \A k \in keys :
         ProbeInBounds(OATable, k) =>
           /\ ProbeForSearch(OATable, k) \in Slots(OATable) \cup {NoEntry, Diverges}
           /\ ProbeForInsert(OATable, k).kind = "inline" =>
                ProbeForInsert(OATable, k).at \in Slots(OATable)
    /\ Begin(OATable).entry_p \in 0 .. entry_count
    /\ \A first \in C29_Held \cup {Begin(OATable)} :
         \A it \in C29_Walk(first, TotalValues(OATable) + 1) :
           /\ it.entry_p \in 0 .. entry_count
           /\ IsValidEntry(entry_list_p[it.entry_p])
           /\ it.entry_p = entry_count => IteratorEq(it, End(OATable))

\* The loop over the iterators has come to End() over a DELETED entry in an
\* array that Resize() has made
C29_Witness ==
  /\ variant = "OA_KVL" /\ fault = "none"
  /\ ret.op = "Iterate" /\ ret.ok /\ ret.range.count >= 2
  /\ entry_count > GetInitEntryCount(0)
  /\ \E i \in Slots(OATable) : IsDeleted(entry_list_p[i])

\* No Data<T> and no list of table t had its lifetime broken
C30_NoneBad(t) ==
  /\ \A i \in 0 .. t.entry_count :
       t.entry_list_p[i].key # BAD /\ t.entry_list_p[i].value # BAD
  /\ \A a \in KVLAddrs :
       /\ t.kvl[a] # BadKVL
       /\ \A i \in 1 .. t.kvl[a].capacity : t.kvl[a].data[i] # BAD

\* Every list is owned by one entry, every entry that has a list owns an
\* allocated one
C30_Owned(t) ==
  /\ \A a \in KVLAddrs :
       IsAllocated(t.kvl, a) =>
         Cardinality({i \in Slots(t) : t.entry_list_p[i].status = a}) = 1
  /\ \A i \in Slots(t) :
       HasKeyValueList(t.entry_list_p[i]) =>
         IsAllocated(t.kvl, t.entry_list_p[i].status)

\* A key is constructed in the valid entries, an inline value in the entries
\* with status INLINE_VALUE, a list value in data[0 .. size - 1], and nowhere
\* else
C30_Constructed(t) ==
  /\ \A i \in Slots(t) :
       LET e == t.entry_list_p[i] IN
       /\ e.key # RAW <=> IsValidEntry(e)
       /\ e.value # RAW <=> e.status = INLINE_VALUE
  /\ \A a \in KVLAddrs :
       IsAllocated(t.kvl, a) =>
         \A i \in 1 .. t.kvl[a].capacity :
           t.kvl[a].data[i] # RAW <=> i <= t.kvl[a].size

\* The destructor of table t ends inside the array and leaves no key, no
\* value and no list
C30_Destroyed(t) ==
  LET d == FreeAllHashEntries(t) IN
  /\ d.end = "none"
  /\ \A i \in 0 .. t.entry_count :
       d.t.entry_list_p[i].key = RAW /\ d.t.entry_list_p[i].value = RAW
  /\ \A a \in KVLAddrs : d.t.kvl[a] = NoKVL

C31_Changed == {i \in 0 .. entry_count : entry_list_p'[i] # entry_list_p[i]}

\* The key value lists a step changes, makes or frees
C31_ChangedLists == {a \in KVLAddrs : kvl'[a] # kvl[a]}

\* The lists of the entries of key on both sides of a step
C31_ListsOf(key) ==
  {entry_list_p[i].status :
     i \in {j \in Slots(OATable) :
              HasKeyValueList(entry_list_p[j]) /\ entry_list_p[j].key = key}}
  \cup {entry_list_p'[i].status :
          i \in {j \in Slots(OATable') :
                   /\ HasKeyValueList(entry_list_p'[j])
                   /\ entry_list_p'[j].key = key}}

C31_Step ==
  /\ (ret'.op = "Insert" /\ ret'.ok /\ active_entry_count # resize_threshold) =>
       /\ Cardinality(C31_Changed) <= 1
       /\ \A i \in C31_Changed : i < entry_count /\ entry_list_p'[i].key = ret'.key
       /\ C31_ChangedLists \subseteq C31_ListsOf(ret'.key)
       /\ C31_Changed = {} => C31_ChangedLists # {}
       /\ UNCHANGED <<entry_count, index_mask, resize_threshold>>
  /\ (ret'.op = "DeleteKey" /\ ret'.ok) =>
       /\ Cardinality(C31_Changed) = 1
       /\ \A i \in C31_Changed :
            /\ i < entry_count
            /\ IsValidEntry(entry_list_p[i]) /\ entry_list_p[i].key = ret'.key
            /\ IsDeleted(entry_list_p'[i])
       /\ C31_ChangedLists \subseteq C31_ListsOf(ret'.key)
       /\ active_entry_count' = active_entry_count - 1
       /\ UNCHANGED <<entry_count, index_mask, resize_threshold>>
  /\ (ret'.op = "Delete" /\ ret'.ok) =>
       /\ C31_Changed \subseteq {ret'.range.at}
       /\ C31_ChangedLists \subseteq C31_ListsOf(ret'.key)
       /\ C31_Changed = {} => C31_ChangedLists # {}
       /\ active_entry_count' =
            IF C31_Changed = {} THEN active_entry_count
            ELSE active_entry_count - 1
       /\ UNCHANGED <<entry_count, index_mask, resize_threshold>>

\* C31: OA_KVL, an Insert that does not resize changes at most one entry (the
\* one that receives the key, or the one whose list receives the value) and
\* leaves every other entry, the sentinel, entry_count, index_mask and
\* resize_threshold as they are; DeleteKey and Delete(it) change only the
\* entry they act on (and its list) and active_entry_count.
C31_Frame ==
  [][(variant = "OA_KVL" /\ fault' = "none") => C31_Step]_vars

\* DeleteKey has deleted one of two entries, the other of which has a list
C31_Witness ==
  /\ variant = "OA_KVL" /\ ret.op = "DeleteKey" /\ ret.ok
  /\ \E i \in Slots(OATable) : IsDeleted(entry_list_p[i])
  /\ \E i \in Slots(OATable) : HasKeyValueList(entry_list_p[i])

\* The nodes of slot i met from entry e on before the chain leaves the slot's
\* group or ends (at most left nodes are followed)
RECURSIVE C32_Group(_, _, _)
C32_Group(e, i, left) ==
  IF e = nullptr \/ left = 0 THEN {}
  ELSE IF C15_Slot(e) # i THEN {}
  ELSE {e} \cup C32_Group(nodes[e].next_p, i, left - 1)

\* C32 (as stated; refuted): CA_CC, in every reachable state a slot is null
\* exactly when no node maps to it, and the node a non-null slot i points to has
\* a successor that maps to i and from which every node that maps to i is met
\* before the chain leaves the group.
C32_BucketPointers ==
  (variant = "CA_CC" /\ fault = "none") =>
    \A i \in 0 .. (slot_count - 1) :
      LET p == entry_p_list_p[i]
          mine == {e \in 1 .. Len(nodes) : C15_Slot(e) = i}
      IN /\ (p = nullptr) <=> (mine = {})
         /\ p # nullptr =>
              /\ nodes[p].next_p # nullptr
              /\ C15_Slot(nodes[p].next_p) = i
              /\ C32_Group(nodes[p].next_p, i, Len(nodes)) = mine

\* The nodes on the global chain that carry one hash follow one another
C33_ChainIsHashGrouped ==
  (variant = "CA_CC" /\ fault = "none") =>
    LET chain == CC_Destructor(CATable).deleted IN
    \A a, c \in 1 .. Len(chain) :
      (a < c /\ nodes[chain[a]].hash_value = nodes[chain[c]].hash_value) =>
        \A b \in a .. c :
          nodes[chain[b]].hash_value = nodes[chain[a]].hash_value

\* C33 (as stated; refuted): CA_CC, in every reachable state the nodes that
\* carry the same full hash are contiguous in the global chain: any two inserted
\* nodes of one hash are both on the chain, with only nodes of that hash between
\* them, also when two hashes share a slot and their inserts alternate.
C33_SameHashContiguity ==
  (variant = "CA_CC" /\ fault = "none") =>
    LET chain == CC_Destructor(CATable).deleted IN
    \A e, f \in 1 .. Len(nodes) :
      (e # f /\ nodes[e].hash_value = nodes[f].hash_value) =>
        \E a, c \in 1 .. Len(chain) :
          /\ chain[a] = e /\ chain[c] = f
          /\ \A b \in 1 .. Len(chain) :
               ((a <= b /\ b <= c) \/ (c <= b /\ b <= a))
                 => nodes[chain[b]].hash_value = nodes[e].hash_value

\* The nodes met by following next_p from entry e in the chain of nodes ns
\* (at most left nodes are followed)
RECURSIVE C34_Reach(_, _, _)
C34_Reach(ns, e, left) ==
  IF e = nullptr \/ left = 0 THEN {}
  ELSE {e} \cup C34_Reach(ns, ns[e].next_p, left - 1)

\* A step is an Insert that did not resize and whose slot was not empty
C34_IntoOccupied ==
  /\ variant = "CA_CC" /\ fault' = "none"
  /\ Len(nodes') = Len(nodes) + 1
  /\ entry_count # resize_threshold
  /\ entry_p_list_p[BitAnd(nodes'[Len(nodes')].hash_value, index_mask)] # nullptr

\* What C34 says of such a step
C34_Step ==
  LET new == Len(nodes')
      p == entry_p_list_p[BitAnd(nodes'[new].hash_value, index_mask)]
  IN /\ nodes'[p].next_p = new
     /\ nodes'[new].next_p = nodes[p].next_p
     /\ entry_p_list_p' = entry_p_list_p
     /\ dummy_next' = dummy_next
     /\ C34_Reach(nodes, dummy_next, Len(nodes)) \subseteq C34_Reach(nodes', dummy_next', Len(nodes'))

\* C34 (as stated; refuted): CA_CC, an Insert into a non-empty slot whose
\* pointer is p makes the new node p's successor and p's former successor the
\* new node's successor, changes no slot pointer and not the dummy head, and
\* keeps every node reachable that was reachable from the dummy head.
C34_Splice == [][C34_IntoOccupied => C34_Step]_vars

\* The table InsertIntoSlot() is called on by Insert(): the resized one when
\* Insert() resizes first
C35_Pre ==
  IF entry_count = resize_threshold THEN CC_Resize(CATable).t ELSE CATable

\* The slot of the node Insert() has just made, in the table it is linked to
C35_Index == BitAnd(nodes'[Len(nodes')].hash_value, index_mask')

\* A step is an Insert whose InsertIntoSlot() found its slot empty
C35_IntoEmpty ==
  /\ variant = "CA_CC" /\ fault' = "none"
  /\ Len(nodes') = Len(nodes) + 1
  /\ C35_Pre.entry_p_list_p[C35_Index] = nullptr

\* What C35 says of such a step
C35_Step ==
  LET t == C35_Pre
      new == Len(nodes')
      first == t.dummy_next
  IN /\ dummy_next' = new
     /\ nodes'[new].next_p = first
     /\ entry_p_list_p'[C35_Index] = new
     /\ \A e \in 1 .. Len(nodes) : nodes'[e] = t.nodes[e]
     /\ IF first = nullptr
        THEN /\ C34_Reach(nodes', dummy_next', Len(nodes')) = {new}
             /\ \A i \in 0 .. (slot_count' - 1) :
                  i # C35_Index => entry_p_list_p'[i] = t.entry_p_list_p[i]
        ELSE LET prev_index == BitAnd(t.nodes[first].hash_value, t.index_mask)
             IN /\ entry_p_list_p'[prev_index] = new
                /\ \A i \in 0 .. (slot_count' - 1) :
                     (i # C35_Index /\ i # prev_index)
                       => entry_p_list_p'[i] = t.entry_p_list_p[i]

\* The assert of InsertIntoSlot() has not failed, and would hold now: the slot
\* of the first node of the chain points at that node
C35_AssertHolds ==
  variant = "CA_CC" =>
    /\ fault # "assert InsertIntoSlot"
    /\ (fault = "none" /\ dummy_next # nullptr) =>
         entry_p_list_p[BitAnd(nodes[dummy_next].hash_value, index_mask)] = dummy_next

\* C35: CA_CC, the assert of InsertIntoSlot() holds in every reachable state,
\* and an Insert into an empty slot makes the new node the first node of the
\* chain with the previous first node (nullptr on an empty table) as its
\* successor, points the new node's slot and the slot of the previous first
\* node at the new node and changes no other slot.
C35_EmptySlotInsert == []C35_AssertHolds /\ [][C35_IntoEmpty => C35_Step]_vars

\* An Insert has just put its node in front of a non-empty chain: two slots
\* point at the new first node
C35_Witness ==
  /\ variant = "CA_CC" /\ fault = "none"
  /\ ret.op = "Insert" /\ ret.ok
  /\ Len(nodes) >= 2 /\ dummy_next = Len(nodes)
  /\ nodes[dummy_next].next_p # nullptr
  /\ Cardinality({i \in 0 .. (slot_count - 1) : entry_p_list_p[i] = dummy_next}) = 2

\* C36 (as stated; refuted): CA_CC, in every reachable state and for every key
\* GetValue returns at once with nothing when the key's slot is null and
\* otherwise never reads the key or hash of a null node.
C36_GetValueMemorySafe ==
  (variant = "CA_CC" /\ fault = "none") =>
    \A key \in keys :
      LET r == CC_GetValue(CATable, key) IN
      /\ entry_p_list_p[BitAnd(index_mask, Hash(key))] = nullptr
           => (r.kind = "vector" /\ r.values = <<>>)
      /\ r.kind # "nullptr"

\* C37 (as stated; refuted): CA_CC, the Resize that Insert calls ends, makes no
\* node, leaves entry_count as it is and keeps the set of nodes reachable from
\* the dummy head, each in the group of slot hash & new index_mask.
C37_ResizePreservesNodes ==
  (variant = "CA_CC" /\ fault = "none" /\ entry_count = resize_threshold) =>
    LET r == CC_Resize(CATable)
        old == C34_Reach(nodes, dummy_next, Len(nodes))
        new == C34_Reach(r.t.nodes, r.t.dummy_next, Len(r.t.nodes))
    IN /\ r.end = "none"
       /\ Len(r.t.nodes) = Len(nodes)
       /\ r.t.entry_count = entry_count
       /\ new = old
       /\ \A e \in new :
            LET i == BitAnd(r.t.nodes[e].hash_value, r.t.index_mask)
                p == r.t.entry_p_list_p[i]
            IN /\ p # nullptr
               /\ e \in C34_Reach(r.t.nodes, p, Len(r.t.nodes))

\* The chain of slot i of table t as the sequence of its nodes, and whether
\* the walk ended in nullptr ("none") or came back to a node ("cycle")
RECURSIVE C38_Walk(_, _, _)
C38_Walk(t, e, chain) ==
  IF e = nullptr THEN [chain |-> chain, end |-> "none"]
  ELSE IF \E n \in 1 .. Len(chain) : chain[n] = e
       THEN [chain |-> chain, end |-> "cycle"]
  ELSE C38_Walk(t, t.nodes[e].next_p, Append(chain, e))

\* The number of nodes on the chains of the slots i .. slot_count - 1
RECURSIVE C38_Count(_, _)
C38_Count(t, i) ==
  IF i >= t.slot_count THEN 0
  ELSE Len(C38_Walk(t, t.entry_p_list_p[i], <<>>).chain) + C38_Count(t, i + 1)

\* Table t is well formed: every chain ends in nullptr, every node is on
\* the chain of slot hash & index_mask, once, and on no other chain, and the
\* chains hold entry_count nodes
C38_WellFormed(t) ==
  /\ DOMAIN t.entry_p_list_p = 0 .. (t.slot_count - 1)
  /\ t.index_mask = t.slot_count - 1
  /\ \A i \in 0 .. (t.slot_count - 1) :
       C38_Walk(t, t.entry_p_list_p[i], <<>>).end = "none"
  /\ \A e \in 1 .. Len(t.nodes) :
       \A i \in 0 .. (t.slot_count - 1) :
         Occurrences(C38_Walk(t, t.entry_p_list_p[i], <<>>).chain, e)
           = IF i = BitAnd(t.nodes[e].hash_value, t.index_mask) THEN 1 ELSE 0
  /\ C38_Count(t, 0) = t.entry_count
  /\ Len(t.nodes) = t.entry_count

\* Every state is well formed, and so is the table right after the Resize()
\* of an Insert() that is due
C38_Structure ==
  variant = "CA_SCC" =>
    /\ C38_WellFormed(CATable)
    /\ (entry_count = resize_threshold /\ CA_ResizeInBounds)
         => C38_WellFormed(SCC_Resize(CATable))

\* The table the new node is linked to by Insert(): the resized one when
\* Insert() resizes first
C38_Pre ==
  IF entry_count = resize_threshold THEN SCC_Resize(CATable) ELSE CATable

\* What C38 says of an Insert
C38_Step ==
  LET t == C38_Pre
      new == Len(nodes')
      index == BitAnd(nodes'[new].hash_value, index_mask')
  IN /\ new = Len(t.nodes) + 1
     /\ entry_p_list_p'[index] = new
     /\ nodes'[new].next_p = t.entry_p_list_p[index]
     /\ \A i \in 0 .. (slot_count' - 1) :
          i # index => entry_p_list_p'[i] = t.entry_p_list_p[i]
     /\ \A e \in 1 .. Len(t.nodes) : nodes'[e] = t.nodes[e]
     /\ entry_count' = entry_count + 1

\* C38: CA_SCC, in every reachable state and right after every Resize each
\* inserted node is on exactly one slot's chain, the slot hash & index_mask,
\* every chain is acyclic and ends in nullptr, and the chains hold entry_count
\* nodes; Insert puts the new node at the head of its slot's chain with the old
\* head as successor and changes no other slot.
C38_SCC_Structure ==
  /\ []C38_Structure
  /\ [][(variant = "CA_SCC" /\ Len(nodes') # Len(nodes)) => C38_Step]_vars

\* An Insert has put its node in front of a chain that holds a node already,
\* another slot has a chain of its own, and the next Insert will resize
C38_Witness ==
  /\ variant = "CA_SCC" /\ fault = "none"
  /\ ret.op = "Insert" /\ ret.ok
  /\ Len(nodes) >= 3
  /\ entry_p_list_p[C15_Slot(Len(nodes))] = Len(nodes)
  /\ nodes[Len(nodes)].next_p # nullptr
  /\ \E i \in 0 .. (slot_count - 1) :
       i # C15_Slot(Len(nodes)) /\ entry_p_list_p[i] # nullptr
  /\ entry_count = resize_threshold /\ CA_ResizeInBounds

\* The lengths of the stretches of consecutive entries of the array of t, the
\* sentinel left out, that are not FREE
C39_Stretches(t) ==
  {j - i + 1 : <<i, j>> \in
     {p \in (0 .. (t.entry_count - 1)) \X (0 .. (t.entry_count - 1)) :
        /\ p[1] <= p[2]
        /\ \A n \in p[1] .. p[2] : ~IsFree(t.entry_list_p[n])}}

\* The length of the longest such stretch, 0 when every entry is FREE
C39_Longest(t) ==
  IF C39_Stretches(t) = {} THEN 0
  ELSE CHOOSE n \in C39_Stretches(t) : \A m \in C39_Stretches(t) : m <= n

\* C39 (as stated; refuted): OA_KVL, for every reachable table
\* GetMaxSearchProbeLength returns the length of the longest stretch of
\* consecutive entries that are not FREE, 0 for a table without such an entry, a
\* stretch that reaches the last entry counted like one followed by a FREE
\* entry.
C39_MaxProbeLength ==
  (variant = "OA_KVL" /\ fault = "none") =>
    GetMaxSearchProbeLength(OATable) = C39_Longest(OATable)

\* What the loop computes: the largest number of entries a search goes over
\* up to and with a FREE entry of the array (1 for a FREE entry that follows a
\* FREE entry or starts the array), 0 when no entry is FREE; a stretch that
\* reaches the last entry is left out
C39_CountsProbedEntries ==
  (variant = "OA_KVL" /\ fault = "none") =>
    LET t == OATable
        last == t.entry_count - 1
        probed == {j - i + 1 : <<i, j>> \in
                    {p \in (0 .. last) \X (0 .. last) :
                       /\ p[1] <= p[2]
                       /\ IsFree(t.entry_list_p[p[2]])
                       /\ \A n \in p[1] .. (p[2] - 1) : ~IsFree(t.entry_list_p[n])}}
    IN GetMaxSearchProbeLength(t) =
         IF probed = {} THEN 0
         ELSE CHOOSE n \in probed : \A m \in probed : m <= n

====
